---- MODULE Spec2Model ----
(***************************************************************************)
(* Verification model of GHRSS/ffapipe.                                    *)
(*                                                                         *)
(* Part I  : PipelineWorker.__call__ (src_scripts/wkr_manager.py) with the *)
(*           completion ledger "<date>.history.log", the human readable    *)
(*           "filelist" and Filterbank.process                             *)
(*           (src_scripts/filterbank_no_rfifind.py).                       *)
(* Part II : PipelineManager.run (src_scripts/pipeline.py): the batch loop,*)
(*           the worker pool of process_time_series_batch, clustering and  *)
(*           the downstream stages.                                        *)
(***************************************************************************)
EXTENDS Integers, Sequences, FiniteSets, TLC

(***************************************************************************)
(* Bounds of the model.                                                    *)
(***************************************************************************)
MaxFiles == 2        \* data files that may appear in one date directory
MaxRuns == 3         \* invocations of PipelineWorker for the date
MaxCands == 1        \* candidates the FFA search may output for one file
MaxBg == 1           \* subprocesses nobody waits for that run at one time
MaxCrashes == 1      \* calls that are killed
MaxTS == 3           \* time series (DM trials) select_dm_trials may select
NumSearches == 2     \* PulsarSearch objects configured by search_configs
MaxProcs == 2        \* largest num_processes of the manager configuration
MaxDets == 1         \* detections find_peaks may return for one time series
NumDates == 2        \* dates of config.analysis_dates, one pool task each
MaxDateFiles == 2    \* "*.raw" files in the directory of one date

Files == 1..MaxFiles

VARIABLES
    \* ---- Part I: PipelineWorker / Filterbank ----
    dirKind,      \* extension of the data files of the date directory
    dirFiles,     \* names of the data files in the date directory
    ledgerState,  \* "absent" | "unreadable" | "ok" : the file <date>.history.log
    ledger,       \* records of <date>.history.log on disk
    filelist,     \* lines of <state>/filelist on disk
    memBuf,       \* records written to _mem_ and not yet flushed
    listBuf,      \* lines written to _list_ and not yet flushed
    pc,           \* position of PipelineWorker.__call__
    EXT,          \* local EXT of __call__
    FILES,        \* local FILES of __call__, the files this call iterates over
    idx,          \* position of the for loop in FILES
    cur,          \* FILE of the current iteration (0: none)
    ncand,        \* number of "*.h5" candidates of the current file
    fil,          \* files whose filterbank product "<name>.fil" exists
    bg,           \* subprocesses started with Popen and never waited for
    runs,         \* number of calls made so far
    fresh,        \* this call took the "running from scratch" branch
    error,        \* exception that ended the last call ("" : none)
    finished,     \* files whose Filterbank.process returned, in that order
    failedFiles,  \* files whose Filterbank.process raised in some call
    skipped,      \* names the current call read from the ledger
    crashes       \* calls that were killed (only in SpecCrash)

wvars == <<dirKind, dirFiles, ledgerState, ledger, filelist, memBuf, listBuf,
           pc, EXT, FILES, idx, cur, ncand, fil, bg, runs, fresh, error,
           finished, failedFiles, skipped, crashes>>

VARIABLES
    \* ---- Part II: PipelineManager / PulsarSearch ----
    num_processes,      \* config['num_processes']
    dm_trial_paths,     \* PipelineManager.dm_trial_paths
    ppc,                \* position of PipelineManager.run
    batchNo,            \* number of batches iter_batches has yielded
    tsbatch,            \* the batch run is working on
    sidx,               \* position of "for search in self.searches"
    task,               \* state of each task of the running pool.map
    output,             \* results of the tasks of the running pool.map
    search_detections,  \* PulsarSearch.detections of every search
    search_clusters,    \* PulsarSearch.clusters of every search
    detections,         \* PipelineManager.detections
    clusters,           \* PipelineManager.clusters
    candidates,         \* PipelineManager.candidates
    outdir,             \* files written to config['outdir']
    perror,             \* exception that ended run ("" : none)
    nacc,               \* batches every search has added to its detections
    nreturned           \* detections pool.map has returned to every search

pvars == <<num_processes, dm_trial_paths, ppc, batchNo, tsbatch, sidx, task,
           output, search_detections, search_clusters, detections, clusters,
           candidates, outdir, perror, nacc,
                   nreturned>>

VARIABLES
    \* ---- Part III: the date workers of wkr_manager.PipelineManager ----
    dpos,         \* position of the worker of every date
    dfile,        \* number of files the worker of every date has finished
    gptool_in,    \* date that copied the "./gptool.in" in place (0: no file)
    rm_cwd,       \* dates with a running "rm -rf *gpt*" nobody waits for
    mitigated,    \* files of every date whose gptool run found gptool.in
    dledger,      \* files recorded in "./<date>.history.log" of every date
    clobbered     \* dates that lost their "./gptool.in" to another date

dvars == <<dpos, dfile, gptool_in, rm_cwd, mitigated, dledger, clobbered>>

VARIABLES
    \* ---- Part IV: one call of a function of pipeline.py or utilities.py ----
    fn,           \* the function that was called ("" : none yet)
    arg,          \* its arguments
    res           \* what it returned

fvars == <<fn, arg, res>>

vars == <<wvars, pvars, dvars, fvars>>

\* What the actions of one part leave alone.
notWorker == <<pvars, dvars, fvars>>
notPipeline == <<wvars, dvars, fvars>>
notDates == <<wvars, pvars, fvars>>
notCall == <<wvars, pvars, dvars>>

Dates == 1..NumDates

\* No date worker has been started.
DatesIdle ==
    /\ dpos = [d \in Dates |-> "idle"]
    /\ dfile = [d \in Dates |-> 0]
    /\ gptool_in = 0
    /\ rm_cwd = {}
    /\ mitigated = [d \in Dates |-> {}]
    /\ dledger = [d \in Dates |-> <<>>]
    /\ clobbered = {}

\* No function has been called.
NoCall ==
    /\ fn = ""
    /\ arg = <<>>
    /\ res = <<>>

(***************************************************************************)
(* Records of the ledger.  The first pickle is the CfgManager snapshot,    *)
(* the others are Meta dictionaries.  A torn record is what a write that   *)
(* stopped half way leaves behind.                                         *)
(***************************************************************************)
CfgRec == [kind |-> "cfg", fname |-> 0, num_candidates |-> 0]

TornRec == [kind |-> "torn", fname |-> 0, num_candidates |-> 0]

Meta(name, n) == [kind |-> "meta", fname |-> name, num_candidates |-> n]

Range(s) == {s[i] : i \in 1..Len(s)}

\* All orders in which os.scandir may list the files of S.
Perms(S) == {s \in [1..Cardinality(S) -> S] : \A i, j \in 1..Cardinality(S) : s[i] = s[j] => i = j}

\* Names of the per-file entries among the records of s.
Names(s) == {s[i].fname : i \in {j \in 1..Len(s) : s[j].kind = "meta"}}

\* Per-file entries of s, in order.
Entries(s) == SelectSeq(s, LAMBDA r : r.kind = "meta")

RECURSIVE FnameSeq(_)
FnameSeq(s) == IF s = <<>> THEN <<>> ELSE <<Head(s).fname>> \o FnameSeq(Tail(s))

(***************************************************************************)
(* utilities.unpickler: the objects the generator yields.  It yields the   *)
(* pickles of the file one after another; a file that cannot be opened     *)
(* (IOError) yields nothing; pickle.load on a torn record raises either    *)
(* EOFError, which ends the generator, or UnpicklingError, which is not    *)
(* caught (see UnpickleRaises).                                            *)
(***************************************************************************)
RECURSIVE UpToTorn(_)
UpToTorn(s) ==
    IF s = <<>> \/ Head(s).kind = "torn" THEN <<>>
    ELSE <<Head(s)>> \o UpToTorn(Tail(s))

unpickler == IF ledgerState = "ok" THEN UpToTorn(ledger) ELSE <<>>

HitsTorn == ledgerState = "ok" /\ Len(UpToTorn(ledger)) < Len(ledger)

\* PipelineWorker.raw_or_fil: ".raw" if any, else ".fil" if any, else None.
raw_or_fil == IF dirFiles = {} THEN "none" ELSE dirKind

Resting == pc \in {"idle", "done", "failed", "crashed"}

InProcess == pc \in {"make_fil", "search", "plot", "fold"}

(***************************************************************************)
(* Init: nothing has run for the date.  The ledger is absent, or a file    *)
(* that cannot be opened for reading, or an empty file.  The directory     *)
(* holds the files 1..n.                                                   *)
(***************************************************************************)
InitWorker ==
    /\ dirKind \in {"raw", "fil"}
    /\ dirFiles \in {1..n : n \in 0..MaxFiles}
    /\ ledgerState \in {"absent", "unreadable", "ok"}
    /\ ledger = <<>>
    /\ filelist = <<>>
    /\ memBuf = <<>>
    /\ listBuf = <<>>
    /\ pc = "idle"
    /\ EXT = "none"
    /\ FILES = <<>>
    /\ idx = 1
    /\ cur = 0
    /\ ncand = 0
    /\ fil = {}
    /\ bg = {}
    /\ runs = 0
    /\ fresh = FALSE
    /\ error = ""
    /\ finished = <<>>
    /\ failedFiles = {}
    /\ skipped = {}
    /\ crashes = 0

\* A new data file arrives in the date directory between two calls.  Files
\* are numbered in the order of their arrival; the order in which a call
\* sees them is any (Perms).
NewFile ==
    /\ Resting
    /\ Cardinality(dirFiles) < MaxFiles
    /\ dirFiles' = dirFiles \cup {Cardinality(dirFiles) + 1}
    /\ UNCHANGED <<dirKind, ledgerState, ledger, filelist, memBuf, listBuf, pc,
                   EXT, FILES, idx, cur, ncand, fil, bg, runs, fresh, error,
                   finished, failedFiles, skipped, crashes>>
    /\ UNCHANGED notWorker

\* __call__, up to the choice of EXT (wkr_manager.py 142-172).
Call ==
    /\ Resting
    /\ runs < MaxRuns
    /\ runs' = runs + 1
    /\ EXT' = raw_or_fil
    /\ pc' = IF raw_or_fil = "none" THEN "end" ELSE "unpickle"
    /\ FILES' = <<>>
    /\ idx' = 1
    /\ cur' = 0
    /\ ncand' = 0
    /\ fresh' = FALSE
    /\ error' = ""
    /\ skipped' = {}
    /\ UNCHANGED <<dirKind, dirFiles, ledgerState, ledger, filelist, memBuf,
                   listBuf, fil, bg, finished, failedFiles, crashes>>
    /\ UNCHANGED notWorker

\* As Recorded, with one more pickle dropped.
Recorded_shifted == Names(SubSeq(unpickler, 3, Len(unpickler)))

\* _filelist_ (187-191): next() drops the first pickle, the configuration;
\* the "fname" of every other pickle is kept.
Recorded == Names(Tail(unpickler))

\* As PendingFiles, without the test against _filelist_.
PendingFiles_all(names) == dirFiles

\* FILES of a resumed call (192): the files whose name is not in _filelist_.
PendingFiles(names) == {f \in dirFiles : f \notin names}

\* "The pipeline has run before. Restore previous state." (185-192).
RestoreState ==
    /\ pc = "unpickle"
    /\ Len(unpickler) >= 1
    /\ skipped' = Recorded
    /\ \E order \in Perms(PendingFiles(Recorded)) : FILES' = order
    /\ idx' = 1
    /\ pc' = "loop"
    /\ UNCHANGED <<dirKind, dirFiles, ledgerState, ledger, filelist, memBuf,
                   listBuf, EXT, cur, ncand, fil, bg, runs, fresh, error,
                   finished, failedFiles, crashes>>
    /\ UNCHANGED notWorker

\* As FromScratch, without the dump of the configuration.
FromScratch_nosnapshot ==
    /\ pc = "unpickle"
    /\ Len(unpickler) = 0
    /\ \E order \in Perms(dirFiles) : FILES' = order
    /\ idx' = 1
    /\ fresh' = TRUE
    /\ ledgerState' = "ok"
    /\ ledger' = <<>>
    /\ memBuf' = <<>>
    /\ pc' = "init_close"
    /\ UNCHANGED <<dirKind, dirFiles, filelist, listBuf, EXT, cur, ncand, fil,
                   bg, runs, error, finished, failedFiles, skipped, crashes>>
    /\ UNCHANGED notWorker

\* "Running from scratch" (194-204): all files, and open(metalist, "wb+")
\* truncates or creates the ledger; the configuration is dumped to _mem_.
FromScratch ==
    /\ pc = "unpickle"
    /\ Len(unpickler) = 0
    /\ \E order \in Perms(dirFiles) : FILES' = order
    /\ idx' = 1
    /\ fresh' = TRUE
    /\ ledgerState' = "ok"
    /\ ledger' = <<>>
    /\ memBuf' = <<CfgRec>>
    /\ pc' = "init_close"
    /\ UNCHANGED <<dirKind, dirFiles, filelist, listBuf, EXT, cur, ncand, fil,
                   bg, runs, error, finished, failedFiles, skipped, crashes>>
    /\ UNCHANGED notWorker

\* open(metalist, "wb+") of a file that could not be opened for reading may
\* raise as well; the exception leaves __call__ (203).
OpenFails ==
    /\ pc = "unpickle"
    /\ ledgerState = "unreadable"
    /\ \E order \in Perms(dirFiles) : FILES' = order
    /\ fresh' = TRUE
    /\ error' = "OSError"
    /\ pc' = "failed"
    /\ UNCHANGED <<dirKind, dirFiles, ledgerState, ledger, filelist, memBuf,
                   listBuf, EXT, idx, cur, ncand, fil, bg, runs, finished,
                   failedFiles, skipped, crashes>>
    /\ UNCHANGED notWorker

\* End of "with open(metalist, 'wb+')" (203-204): the snapshot reaches the disk.
InitClose ==
    /\ pc = "init_close"
    /\ ledger' = ledger \o memBuf
    /\ memBuf' = <<>>
    /\ pc' = "loop"
    /\ UNCHANGED <<dirKind, dirFiles, ledgerState, filelist, listBuf, EXT,
                   FILES, idx, cur, ncand, fil, bg, runs, fresh, error,
                   finished, failedFiles, skipped, crashes>>
    /\ UNCHANGED notWorker

\* "for FILE in FILES", the two opens and Filterbank(...) (214-230).
ForFile ==
    /\ pc = "loop"
    /\ pc' = IF idx <= Len(FILES) THEN "make_fil" ELSE "end"
    /\ cur' = IF idx <= Len(FILES) THEN FILES[idx] ELSE 0
    /\ ncand' = 0
    /\ UNCHANGED <<dirKind, dirFiles, ledgerState, ledger, filelist, memBuf,
                   listBuf, EXT, FILES, idx, fil, bg, runs, fresh, error,
                   finished, failedFiles, skipped, crashes>>
    /\ UNCHANGED notWorker

(***************************************************************************)
(* Filterbank.process (filterbank_no_rfifind.py 923-945), stage by stage.  *)
(***************************************************************************)

\* As ProcessRaises, with the exception caught inside the loop, which
\* goes on with the next file.
ProcessRaises_continues ==
    /\ InProcess
    /\ failedFiles' = failedFiles \cup {cur}
    /\ error' = "Exception"
    /\ idx' = idx + 1
    /\ pc' = "loop"
    /\ UNCHANGED <<dirKind, dirFiles, ledgerState, ledger, filelist, memBuf,
                   listBuf, EXT, FILES, cur, ncand, fil, bg, runs, fresh,
                   finished, skipped, crashes>>
    /\ UNCHANGED notWorker

\* As ProcessRaises, with the entry written in a "finally".
ProcessRaises_dumps ==
    /\ InProcess
    /\ failedFiles' = failedFiles \cup {cur}
    /\ error' = "Exception"
    /\ pc' = "failed"
    /\ ledger' = Append(ledger, Meta(cur, ncand))
    /\ UNCHANGED <<dirKind, dirFiles, ledgerState, filelist, memBuf,
                   listBuf, EXT, FILES, idx, cur, ncand, fil, bg, runs, fresh,
                   finished, skipped, crashes>>
    /\ UNCHANGED notWorker

\* Any stage may raise (a tool that fails, a header that cannot be parsed).
\* Nothing catches it: the "with" of __call__ closes both files, whose
\* buffers are empty, and the exception leaves __call__.
ProcessRaises ==
    /\ InProcess
    /\ failedFiles' = failedFiles \cup {cur}
    /\ error' = "Exception"
    /\ pc' = "failed"
    /\ UNCHANGED <<dirKind, dirFiles, ledgerState, ledger, filelist, memBuf,
                   listBuf, EXT, FILES, idx, cur, ncand, fil, bg, runs, fresh,
                   finished, skipped, crashes>>
    /\ UNCHANGED notWorker

\* make_fil (482-524): a "*.raw" input is turned into "<name>.fil".
make_fil ==
    /\ pc = "make_fil"
    /\ fil' = IF EXT = "raw" THEN fil \cup {cur} ELSE fil
    /\ pc' = "search"
    /\ UNCHANGED <<dirKind, dirFiles, ledgerState, ledger, filelist, memBuf,
                   listBuf, EXT, FILES, idx, cur, ncand, bg, runs, fresh, error,
                   finished, failedFiles, skipped, crashes>>
    /\ UNCHANGED notWorker

\* make_dirs, load_header, para_dedisp, fast_folding (931-934): the search
\* leaves some number of "*.h5" candidates in cands_path.
fast_folding ==
    /\ pc = "search"
    /\ \E n \in 0..MaxCands : ncand' = n
    /\ pc' = "plot"
    /\ UNCHANGED <<dirKind, dirFiles, ledgerState, ledger, filelist, memBuf,
                   listBuf, EXT, FILES, idx, cur, fil, bg, runs, fresh, error,
                   finished, failedFiles, skipped, crashes>>
    /\ UNCHANGED notWorker

\* plot_candidates (694-762): make_pdf takes images[0] (utilities.py 216),
\* an IndexError when there is no candidate; "rm -rf <png>" is started and
\* not waited for (741-746).
plot_candidates ==
    /\ pc = "plot"
    /\ ncand = 0 \/ Cardinality(bg) < MaxBg
    /\ pc' = IF ncand = 0 THEN "failed" ELSE "fold"
    /\ error' = IF ncand = 0 THEN "IndexError" ELSE error
    /\ failedFiles' = IF ncand = 0 THEN failedFiles \cup {cur} ELSE failedFiles
    /\ bg' = IF ncand = 0 THEN bg ELSE bg \cup {<<cur, "rm_png">>}
    /\ UNCHANGED <<dirKind, dirFiles, ledgerState, ledger, filelist, memBuf,
                   listBuf, EXT, FILES, idx, cur, ncand, fil, runs, fresh,
                   finished, skipped, crashes>>
    /\ UNCHANGED notWorker

\* fold_profiles, archive_profiles, clean_profiles and Meta(_attrs_)
\* (936-940); "gs ... *.ps" is started and not waited for (863-869).
\* process returns.
fold_profiles ==
    /\ pc = "fold"
    /\ Cardinality(bg) < MaxBg
    /\ bg' = bg \cup {<<cur, "gs">>}
    /\ finished' = Append(finished, cur)
    /\ pc' = "dump"
    /\ UNCHANGED <<dirKind, dirFiles, ledgerState, ledger, filelist, memBuf,
                   listBuf, EXT, FILES, idx, cur, ncand, fil, runs, fresh, error,
                   failedFiles, skipped, crashes>>
    /\ UNCHANGED notWorker

\* A subprocess nobody waits for does its work on the products of its file.
BgFinish ==
    /\ \E j \in bg : bg' = bg \ {j}
        /\ UNCHANGED <<dirKind, dirFiles, ledgerState, ledger, filelist, memBuf,
                   listBuf, pc, EXT, FILES, idx, cur, ncand, fil, runs, fresh,
                   error, finished, failedFiles, skipped, crashes>>
    /\ UNCHANGED notWorker

(***************************************************************************)
(* The rest of the loop body of __call__ (233-244) and the end of the      *)
(* "with" statement.                                                       *)
(***************************************************************************)

\* pickle.dump(filterbank.metadata, _mem_) (237).
DumpMeta ==
    /\ pc = "dump"
    /\ memBuf' = Append(memBuf, Meta(cur, ncand))
    /\ pc' = "write_list"
    /\ UNCHANGED <<dirKind, dirFiles, ledgerState, ledger, filelist, listBuf,
                   EXT, FILES, idx, cur, ncand, fil, bg, runs, fresh, error,
                   finished, failedFiles, skipped, crashes>>
    /\ UNCHANGED notWorker

\* _list_.write(FIL_NAME) (238).
WriteList ==
    /\ pc = "write_list"
    /\ listBuf' = Append(listBuf, cur)
    /\ pc' = "remove"
    /\ UNCHANGED <<dirKind, dirFiles, ledgerState, ledger, filelist, memBuf,
                   EXT, FILES, idx, cur, ncand, fil, bg, runs, fresh, error,
                   finished, failedFiles, skipped, crashes>>
    /\ UNCHANGED notWorker

\* os.remove(filterbank.path) when the call started from "*.raw" (243-244).
RemoveFil ==
    /\ pc = "remove"
    /\ fil' = IF EXT = "raw" THEN fil \ {cur} ELSE fil
    /\ pc' = "close_list"
    /\ UNCHANGED <<dirKind, dirFiles, ledgerState, ledger, filelist, memBuf,
                   listBuf, EXT, FILES, idx, cur, ncand, bg, runs, fresh, error,
                   finished, failedFiles, skipped, crashes>>
    /\ UNCHANGED notWorker

\* The "with" of line 216 ends: _list_ is closed first ...
CloseList ==
    /\ pc = "close_list"
    /\ filelist' = filelist \o listBuf
    /\ listBuf' = <<>>
    /\ pc' = "close_mem"
    /\ UNCHANGED <<dirKind, dirFiles, ledgerState, ledger, memBuf, EXT, FILES,
                   idx, cur, ncand, fil, bg, runs, fresh, error, finished,
                   failedFiles, skipped, crashes>>
    /\ UNCHANGED notWorker

\* As CloseMem, with the ledger opened in mode "wb" instead of "ab".
CloseMem_truncating ==
    /\ pc = "close_mem"
    /\ ledger' = memBuf
    /\ memBuf' = <<>>
    /\ idx' = idx + 1
    /\ pc' = "loop"
    /\ UNCHANGED <<dirKind, dirFiles, ledgerState, filelist, listBuf, EXT,
                   FILES, cur, ncand, fil, bg, runs, fresh, error, finished,
                   failedFiles, skipped, crashes>>
    /\ UNCHANGED notWorker

\* ... then _mem_: the entry reaches the ledger, and the loop goes on.
CloseMem ==
    /\ pc = "close_mem"
    /\ ledger' = ledger \o memBuf
    /\ memBuf' = <<>>
    /\ idx' = idx + 1
    /\ pc' = "loop"
    /\ UNCHANGED <<dirKind, dirFiles, ledgerState, filelist, listBuf, EXT,
                   FILES, cur, ncand, fil, bg, runs, fresh, error, finished,
                   failedFiles, skipped, crashes>>
    /\ UNCHANGED notWorker

\* Lines 248-251.  start_time is bound only inside "if EXT:" (170).
EndCall ==
    /\ pc = "end"
    /\ pc' = IF EXT = "none" THEN "failed" ELSE "done"
    /\ error' = IF EXT = "none" THEN "UnboundLocalError" ELSE error
    /\ cur' = 0
    /\ UNCHANGED <<dirKind, dirFiles, ledgerState, ledger, filelist, memBuf,
                   listBuf, EXT, FILES, idx, ncand, fil, bg, runs, fresh,
                   finished, failedFiles, skipped, crashes>>
    /\ UNCHANGED notWorker

NextWorker ==
    \/ NewFile
    \/ Call
    \/ RestoreState
    \/ FromScratch
    \/ OpenFails
    \/ InitClose
    \/ ForFile
    \/ ProcessRaises
    \/ make_fil
    \/ fast_folding
    \/ plot_candidates
    \/ fold_profiles
    \/ BgFinish
    \/ DumpMeta
    \/ WriteList
    \/ RemoveFil
    \/ CloseList
    \/ CloseMem
    \/ EndCall

(***************************************************************************)
(* PipelineManager.__init__: the searches are configured and every list is *)
(* empty.  P is the set num_processes is drawn from.                       *)
(***************************************************************************)
Searches == 1..NumSearches

InitPipelineWith(P) ==
    /\ num_processes \in P
    /\ dm_trial_paths = <<>>
    /\ ppc = "run"
    /\ batchNo = 0
    /\ tsbatch = <<>>
    /\ sidx = 1
    /\ task = <<>>
    /\ output = <<>>
    /\ search_detections = [s \in Searches |-> <<>>]
    /\ search_clusters = [s \in Searches |-> <<>>]
    /\ detections = <<>>
    /\ clusters = <<>>
    /\ candidates = <<>>
    /\ outdir = {}
    /\ perror = ""
    /\ nacc = [s \in Searches |-> 0]
    /\ nreturned = [s \in Searches |-> 0]

\* The worker is studied with a manager that has not been started.
Init == InitWorker /\ InitPipelineWith({1}) /\ DatesIdle /\ NoCall

Next == NextWorker

Spec == Init /\ [][Next]_vars

(***************************************************************************)
(* Crashes.  A call can be killed at any point; what its buffers hold is   *)
(* lost.  A flush that is cut short leaves a torn record at the end of the *)
(* ledger.                                                                 *)
(***************************************************************************)
Kill ==
    /\ ~Resting
    /\ crashes < MaxCrashes
    /\ crashes' = crashes + 1
    /\ memBuf' = <<>>
    /\ listBuf' = <<>>
    /\ pc' = "crashed"
    /\ error' = "killed"
    /\ FILES' = <<>>
    /\ idx' = 1
    /\ cur' = 0
    /\ ncand' = 0
    /\ skipped' = {}
    /\ fresh' = FALSE
    /\ UNCHANGED <<dirKind, dirFiles, ledgerState, ledger, filelist, EXT, fil,
                   bg, runs, finished, failedFiles>>
    /\ UNCHANGED notWorker

TornAppend ==
    /\ pc \in {"init_close", "close_mem"}
    /\ memBuf # <<>>
    /\ crashes < MaxCrashes
    /\ crashes' = crashes + 1
    /\ ledger' = Append(ledger, TornRec)
    /\ memBuf' = <<>>
    /\ listBuf' = <<>>
    /\ pc' = "crashed"
    /\ error' = "killed"
    /\ FILES' = <<>>
    /\ idx' = 1
    /\ cur' = 0
    /\ ncand' = 0
    /\ skipped' = {}
    /\ fresh' = FALSE
    /\ UNCHANGED <<dirKind, dirFiles, ledgerState, filelist, EXT, fil, bg,
                   runs, finished, failedFiles>>
    /\ UNCHANGED notWorker

\* pickle.load on a torn record raises UnpicklingError; unpickler catches only
\* EOFError and IOError (utilities.py 28-38), so it leaves __call__ at 187 or 191.
UnpickleRaises ==
    /\ pc = "unpickle"
    /\ HitsTorn
    /\ error' = "UnpicklingError"
    /\ pc' = "failed"
    /\ UNCHANGED <<dirKind, dirFiles, ledgerState, ledger, filelist, memBuf,
                   listBuf, EXT, FILES, idx, cur, ncand, fil, bg, runs, fresh,
                   finished, failedFiles, skipped, crashes>>
    /\ UNCHANGED notWorker

NextCrash ==
    \/ NextWorker
    \/ Kill
    \/ TornAppend
    \/ UnpickleRaises

SpecCrash == Init /\ [][NextCrash]_vars

(***************************************************************************)
(* Part II.  PipelineManager.run and PulsarSearch (pipeline.py).           *)
(*                                                                         *)
(* A time series is named by the rank of its DM trial.  ffa_search and     *)
(* find_peaks are library code: the model lets a worker return no peak or  *)
(* the MaxDets peaks of its periodogram.  The searches cover               *)
(* consecutive period ranges (PulsarSearch docstring), the k-th peak of    *)
(* search s sits at period (s-1)*MaxDets + k, and a peak is as bright as   *)
(* the rank of its DM trial.                                               *)
(***************************************************************************)
Detection(s, t, k) ==
    [period |-> (s - 1) * MaxDets + k, dm |-> t, snr |-> t, fname |-> t]

\* What PulsarSearchWorker.__call__ of search s may return for series t.
WorkerOutputs(s, t) ==
    {<<>>, [k \in 1..MaxDets |-> Detection(s, t, k)]}

\* grouper(paths, num_processes): the k-th group of at most n elements.
grouper(paths, n, k) ==
    SubSeq(paths, (k - 1) * n + 1,
           IF k * n < Len(paths) THEN k * n ELSE Len(paths))

\* Number of groups grouper yields for the selected DM trials.
NumBatches == (Len(dm_trial_paths) + num_processes - 1) \div num_processes

\* [det for sublist in output for det in sublist]
RECURSIVE new_detections(_)
new_detections(out) ==
    IF out = <<>> THEN <<>> ELSE Head(out) \o new_detections(Tail(out))

\* Indices 1..n of x ordered by increasing x, equal values in input order.
RECURSIVE ArgSort(_, _)
ArgSort(x, n) ==
    IF n = 0 THEN <<>>
    ELSE LET prev == ArgSort(x, n - 1)
             pos  == Cardinality({j \in 1..Len(prev) : x[prev[j]] <= x[n]})
         IN  SubSeq(prev, 1, pos) \o <<n>> \o SubSeq(prev, pos + 1, Len(prev))

\* As SortedReverse, with the list left in the order it had.
SortedReverse_unsorted(s, keys) == s

\* sorted(s, key=..., reverse=True) with keys[i] the key of s[i]: Python's
\* sort is stable, also when reversed.
SortedReverse(s, keys) ==
    LET p == ArgSort([i \in 1..Len(s) |-> 0 - keys[i]], Len(s))
    IN  [i \in 1..Len(s) |-> s[p[i]]]

\* Sorted indices cut wherever two neighbours are more than r apart.
RECURSIVE SplitRuns(_, _, _)
SplitRuns(ind, x, r) ==
    IF Len(ind) <= 1 THEN (IF ind = <<>> THEN <<>> ELSE <<ind>>)
    ELSE LET rest == SplitRuns(Tail(ind), x, r)
         IN  IF x[ind[2]] - x[ind[1]] > r
             THEN <<(<<ind[1]>>)>> \o rest
             ELSE <<(<<ind[1]>> \o Head(rest))>> \o Tail(rest)

\* riptide.clustering.cluster_1d: single linkage over the sorted values.
cluster_1d(x, r) == SplitRuns(ArgSort(x, Len(x)), x, r)

\* config['detect']['peak_clustering_radius'], in the unit of BeatIndex.
clrad == 1

\* As BeatIndex, with the period itself.
BeatIndex_period(det) == det.period

\* tobs / period, scaled to integers; tobs is the same for every detection.
BeatIndex(det) == 12 \div det.period

\* The clusters cluster_detections builds from a detection list.
ClustersOf(dets) ==
    LET dbi == [i \in 1..Len(dets) |-> BeatIndex(dets[i])]
        cluster_indices == cluster_1d(dbi, clrad)
    IN  [c \in 1..Len(cluster_indices) |->
            [j \in 1..Len(cluster_indices[c]) |-> dets[cluster_indices[c][j]]]]

\* As top_detection, with the last of the maxima.
top_detection_last(cl) ==
    cl[CHOOSE i \in 1..Len(cl) :
          /\ \A j \in 1..Len(cl) : cl[j].snr <= cl[i].snr
          /\ \A j \in (i + 1)..Len(cl) : cl[j].snr < cl[i].snr]

\* DetectionCluster.top_detection: max() returns the first maximum.
top_detection(cl) ==
    cl[CHOOSE i \in 1..Len(cl) :
          /\ \A j \in 1..Len(cl) : cl[j].snr <= cl[i].snr
          /\ \A j \in 1..(i - 1) : cl[j].snr < cl[i].snr]

\* DetectionCluster.to_dict
to_dict(c) ==
    LET t == top_detection(c.members)
    IN  [period |-> t.period, dm |-> t.dm, snr |-> t.snr,
         num_detections |-> Len(c.members)]

\* Every detection of every search, tagged with its search.
RECURSIVE FetchedDetections(_)
FetchedDetections(n) ==
    IF n = 0 THEN <<>>
    ELSE FetchedDetections(n - 1) \o
         [i \in 1..Len(search_detections[n]) |->
             [search |-> n, det |-> search_detections[n][i]]]

\* Every cluster of every search, tagged with its search.
RECURSIVE FetchedClusters(_)
FetchedClusters(n) ==
    IF n = 0 THEN <<>>
    ELSE FetchedClusters(n - 1) \o
         [i \in 1..Len(search_clusters[n]) |->
             [search |-> n, members |-> search_clusters[n][i]]]

TopSnr(cls) == [i \in 1..Len(cls) |-> top_detection(cls[i].members).snr]

\* riptide's flag_harmonics, reduced to integer period ratios: a cluster is
\* a harmonic when its period and the period of an earlier cluster that is
\* itself no harmonic divide one another.
RECURSIVE flag_harmonics(_)
flag_harmonics(cparams) ==
    IF cparams = <<>> THEN <<>>
    ELSE LET n    == Len(cparams)
             prev == flag_harmonics(SubSeq(cparams, 1, n - 1))
             fund == {j \in 1..(n - 1) :
                        /\ ~prev[j].is_harmonic
                        /\ \/ cparams[n].period % cparams[j].period = 0
                           \/ cparams[j].period % cparams[n].period = 0}
         IN  Append(prev,
                    IF fund = {}
                    THEN [is_harmonic |-> FALSE, fundamental_index |-> 0]
                    ELSE [is_harmonic |-> TRUE,
                          fundamental_index |->
                              CHOOSE j \in fund : \A k \in fund : j <= k])

\* Rows of a table, ordered by sort_dataframe_by_column(data, 'period').
TableRows(rows) ==
    LET p == ArgSort([i \in 1..Len(rows) |-> rows[i].period], Len(rows))
    IN  [i \in 1..Len(rows) |-> rows[p[i]]]

\* Candidate.from_pipeline_output: the parameters of the top detection.
Candidate(c) ==
    LET t == top_detection(c.members)
    IN  [search |-> c.search, best_period |-> t.period, best_dm |-> t.dm,
         best_snr |-> t.snr]

\* The settings of config['candidate_filters'] the model draws from.
CandidateFilters == [dm_min : {0, 2}, snr_min : {0, 2}, max_number : {0, 1}]

\* run, line 568.  The selection itself is library and header reading; its
\* result is a list of distinct files in increasing DM order.
select_dm_trials ==
    /\ ppc = "run"
    /\ \E n \in 0..MaxTS : dm_trial_paths' = [i \in 1..n |-> i]
    /\ ppc' = "iter_batches"
    /\ UNCHANGED <<num_processes, batchNo, tsbatch, sidx, task, output,
                   search_detections, search_clusters, detections, clusters,
                   candidates, outdir, perror, nacc,
                   nreturned>>
    /\ UNCHANGED notPipeline

\* As MoreBatches, with a generator that yields the first group only.
MoreBatches_first == batchNo < 1 /\ dm_trial_paths # <<>>

\* The generator of iter_batches has another group to yield.
MoreBatches == batchNo * num_processes < Len(dm_trial_paths)

\* "for tsbatch in self.iter_batches()": the next batch is loaded, or the
\* loop ends and run goes on to the clustering loop.
iter_batches ==
    /\ ppc = "iter_batches"
    /\ IF MoreBatches
       THEN /\ batchNo' = batchNo + 1
            /\ tsbatch' = grouper(dm_trial_paths, num_processes, batchNo + 1)
            /\ ppc' = "process"
       ELSE /\ ppc' = "cluster"
            /\ UNCHANGED <<batchNo, tsbatch>>
    /\ sidx' = 1
    /\ UNCHANGED <<num_processes, dm_trial_paths, task, output,
                   search_detections, search_clusters, detections, clusters,
                   candidates, outdir, perror, nacc,
                   nreturned>>
    /\ UNCHANGED notPipeline

\* process_time_series_batch up to the call of pool.map: one task per time
\* series of the batch is handed to the pool.
process_time_series_batch ==
    /\ ppc = "process"
    /\ task' = [i \in 1..Len(tsbatch) |-> "queued"]
    /\ output' = [i \in 1..Len(tsbatch) |-> <<>>]
    /\ ppc' = "map"
    /\ UNCHANGED <<num_processes, dm_trial_paths, batchNo, tsbatch, sidx,
                   search_detections, search_clusters, detections, clusters,
                   candidates, outdir, perror, nacc,
                   nreturned>>
    /\ UNCHANGED notPipeline

\* One pool process returns the detections of one time series.
PulsarSearchWorker ==
    /\ ppc = "map"
    /\ \E i \in 1..Len(task) :
          /\ task[i] = "queued"
          /\ \E dets \in WorkerOutputs(sidx, tsbatch[i]) :
                output' = [output EXCEPT ![i] = dets]
          /\ task' = [task EXCEPT ![i] = "done"]
    /\ UNCHANGED <<num_processes, dm_trial_paths, ppc, batchNo, tsbatch, sidx,
                   search_detections, search_clusters, detections, clusters,
                   candidates, outdir, perror, nacc,
                   nreturned>>
    /\ UNCHANGED notPipeline

\* ffa_search or find_peaks raises inside one pool process.
WorkerRaises ==
    /\ ppc = "map"
    /\ \E i \in 1..Len(task) :
          /\ task[i] = "queued"
          /\ task' = [task EXCEPT ![i] = "raised"]
    /\ UNCHANGED <<num_processes, dm_trial_paths, ppc, batchNo, tsbatch, sidx,
                   output, search_detections, search_clusters, detections,
                   clusters, candidates, outdir, perror, nacc,
                   nreturned>>
    /\ UNCHANGED notPipeline

\* As LastSearch, with an inner loop that stops after its first search.
LastSearch_always == sidx >= 1

\* The inner loop of run has reached the last search.
LastSearch == sidx = NumSearches

\* Number of detections in the lists pool.map returns.
RECURSIVE NumReturned(_)
NumReturned(out) ==
    IF out = <<>> THEN 0 ELSE Len(Head(out)) + NumReturned(Tail(out))

\* As MapReturns, with self.detections replaced by the new detections.
MapReturns_replacing ==
    /\ ppc = "map"
    /\ \A i \in 1..Len(task) : task[i] = "done"
    /\ search_detections' =
          [search_detections EXCEPT ![sidx] = new_detections(output)]
    /\ nacc' = [nacc EXCEPT ![sidx] = @ + 1]
    /\ nreturned' = [nreturned EXCEPT ![sidx] = @ + NumReturned(output)]
    /\ IF sidx = NumSearches
       THEN ppc' = "iter_batches" /\ sidx' = sidx
       ELSE ppc' = "process" /\ sidx' = sidx + 1
    /\ UNCHANGED <<num_processes, dm_trial_paths, batchNo, tsbatch, task,
                   output, search_clusters, detections, clusters, candidates,
                   outdir, perror>>
    /\ UNCHANGED notPipeline

\* pool.map returns the results of every task; lines 195-206 add them to
\* the detections of the search, and run moves to the next search or batch.
MapReturns ==
    /\ ppc = "map"
    /\ \A i \in 1..Len(task) : task[i] = "done"
    /\ search_detections' =
          [search_detections EXCEPT ![sidx] = @ \o new_detections(output)]
    /\ nacc' = [nacc EXCEPT ![sidx] = @ + 1]
    /\ nreturned' = [nreturned EXCEPT ![sidx] = @ + NumReturned(output)]
    /\ IF LastSearch
       THEN ppc' = "iter_batches" /\ sidx' = sidx
       ELSE ppc' = "process" /\ sidx' = sidx + 1
    /\ UNCHANGED <<num_processes, dm_trial_paths, batchNo, tsbatch, task,
                   output, search_clusters, detections, clusters, candidates,
                   outdir, perror>>
    /\ UNCHANGED notPipeline

\* As MapRaises, with the results of the tasks that returned kept.
MapRaises_partial ==
    /\ ppc = "map"
    /\ \E i \in 1..Len(task) : task[i] = "raised"
    /\ ppc' = "failed"
    /\ perror' = "WorkerError"
    /\ search_detections' =
          [search_detections EXCEPT ![sidx] = @ \o new_detections(output)]
    /\ UNCHANGED <<num_processes, dm_trial_paths, batchNo, tsbatch, sidx, task,
                   output, search_clusters, detections, clusters,
                   candidates, outdir, nacc,
                   nreturned>>
    /\ UNCHANGED notPipeline

\* pool.map re-raises the exception of a task (Python 3 once every task has
\* finished, Python 2 at once): lines 195-206 are skipped and the exception
\* leaves process_time_series_batch and run.
MapRaises ==
    /\ ppc = "map"
    /\ \E i \in 1..Len(task) : task[i] = "raised"
    /\ ppc' = "failed"
    /\ perror' = "WorkerError"
    /\ UNCHANGED <<num_processes, dm_trial_paths, batchNo, tsbatch, sidx, task,
                   output, search_detections, search_clusters, detections,
                   clusters, candidates, outdir, nacc,
                   nreturned>>
    /\ UNCHANGED notPipeline

\* "for search in self.searches: search.cluster_detections()"
cluster_detections ==
    /\ ppc = "cluster"
    /\ IF search_detections[sidx] = <<>>
       THEN UNCHANGED search_clusters
       ELSE search_clusters' =
               [search_clusters EXCEPT
                   ![sidx] = ClustersOf(search_detections[sidx])]
    /\ IF sidx = NumSearches
       THEN ppc' = "fetch_detections" /\ sidx' = sidx
       ELSE ppc' = ppc /\ sidx' = sidx + 1
    /\ UNCHANGED <<num_processes, dm_trial_paths, batchNo, tsbatch, task,
                   output, search_detections, detections, clusters,
                   candidates, outdir, perror, nacc,
                   nreturned>>
    /\ UNCHANGED notPipeline

fetch_detections ==
    /\ ppc = "fetch_detections"
    /\ detections' = FetchedDetections(NumSearches)
    /\ ppc' = "fetch_clusters"
    /\ UNCHANGED <<num_processes, dm_trial_paths, batchNo, tsbatch, sidx, task,
                   output, search_detections, search_clusters, clusters,
                   candidates, outdir, perror, nacc,
                   nreturned>>
    /\ UNCHANGED notPipeline

fetch_clusters ==
    /\ ppc = "fetch_clusters"
    /\ clusters' = FetchedClusters(NumSearches)
    /\ ppc' = "save_detections"
    /\ UNCHANGED <<num_processes, dm_trial_paths, batchNo, tsbatch, sidx, task,
                   output, search_detections, search_clusters, detections,
                   candidates, outdir, perror, nacc,
                   nreturned>>
    /\ UNCHANGED notPipeline

\* As save_detections, without the return on an empty detection list.
save_detections_unguarded ==
    /\ ppc = "save_detections"
    /\ outdir' = outdir \cup
          {<<"detections.csv",
             TableRows([i \in 1..Len(detections) |->
                 [search_name |-> detections[i].search,
                  period |-> detections[i].det.period,
                  dm |-> detections[i].det.dm,
                  snr |-> detections[i].det.snr]])>>}
    /\ ppc' = "save_clusters"
    /\ UNCHANGED <<num_processes, dm_trial_paths, batchNo, tsbatch, sidx, task,
                   output, search_detections, search_clusters, detections,
                   clusters, candidates, perror, nacc,
                   nreturned>>
    /\ UNCHANGED notPipeline

save_detections ==
    /\ ppc = "save_detections"
    /\ IF detections = <<>>
       THEN UNCHANGED outdir
       ELSE outdir' = outdir \cup
               {<<"detections.csv",
                  TableRows([i \in 1..Len(detections) |->
                      [search_name |-> detections[i].search,
                       period |-> detections[i].det.period,
                       dm |-> detections[i].det.dm,
                       snr |-> detections[i].det.snr]])>>}
    /\ ppc' = "save_clusters"
    /\ UNCHANGED <<num_processes, dm_trial_paths, batchNo, tsbatch, sidx, task,
                   output, search_detections, search_clusters, detections,
                   clusters, candidates, perror, nacc,
                   nreturned>>
    /\ UNCHANGED notPipeline

save_clusters ==
    /\ ppc = "save_clusters"
    /\ IF clusters = <<>>
       THEN UNCHANGED outdir
       ELSE outdir' = outdir \cup
               {<<"clusters.csv",
                  TableRows([i \in 1..Len(clusters) |->
                      [search_name |-> clusters[i].search,
                       period |-> top_detection(clusters[i].members).period,
                       dm |-> top_detection(clusters[i].members).dm,
                       snr |-> top_detection(clusters[i].members).snr]])>>}
    /\ ppc' = "remove_harmonics"
    /\ UNCHANGED <<num_processes, dm_trial_paths, batchNo, tsbatch, sidx, task,
                   output, search_detections, search_clusters, detections,
                   clusters, candidates, perror, nacc,
                   nreturned>>
    /\ UNCHANGED notPipeline

\* As Fundamentals, with the results of the classifier applied to the
\* clusters in reverse order.
Fundamentals_reversed(cls) ==
    LET cparams == flag_harmonics([i \in 1..Len(cls) |-> to_dict(cls[i])])
    IN  SelectSeq([i \in 1..Len(cls) |->
                      [cl |-> cls[Len(cls) + 1 - i], par |-> cparams[i]]],
                  LAMBDA e : ~e.par.is_harmonic)

\* The clusters that remain when the harmonics flagged among cls, already
\* sorted, are dropped (lines 401-419).
Fundamentals(cls) ==
    LET cparams == flag_harmonics([i \in 1..Len(cls) |-> to_dict(cls[i])])
    IN  SelectSeq([i \in 1..Len(cls) |-> [cl |-> cls[i], par |-> cparams[i]]],
                  LAMBDA e : ~e.par.is_harmonic)

remove_harmonics ==
    /\ ppc = "remove_harmonics"
    /\ \E enabled \in BOOLEAN :
          IF ~enabled \/ detections = <<>>
          THEN UNCHANGED clusters
          ELSE LET sorted == SortedReverse(clusters, TopSnr(clusters))
                   fundamentals == Fundamentals(sorted)
               IN  clusters' = [i \in 1..Len(fundamentals) |->
                                   fundamentals[i].cl]
    /\ ppc' = "apply_candidate_filters"
    /\ UNCHANGED <<num_processes, dm_trial_paths, batchNo, tsbatch, sidx, task,
                   output, search_detections, search_clusters, detections,
                   candidates, outdir, perror, nacc,
                   nreturned>>
    /\ UNCHANGED notPipeline

\* As Filtered, with the cut to max_number made before the filters.
Filtered_cutfirst(cls, params) ==
    LET cut == IF params.max_number # 0 /\ params.max_number < Len(cls)
               THEN SubSeq(cls, 1, params.max_number)
               ELSE cls
    IN  SelectSeq(cut, LAMBDA c :
           /\ top_detection(c.members).dm >= params.dm_min
           /\ top_detection(c.members).snr >= params.snr_min)

\* As Truthy, with only None taken as unset.
Truthy_notnone(x) == x # 0 - 1

\* The truth value of a number or None in `if dm_min:`; None is written
\* 0 - 1 in this module.
Truthy(x) == x # 0 /\ x # 0 - 1

\* The filter "DM >= dm_min" (441-444).
ByDm(cls, params) ==
    IF Truthy(params.dm_min)
    THEN SelectSeq(cls, LAMBDA c :
             top_detection(c.members).dm >= params.dm_min)
    ELSE cls

\* The filter "S/N >= snr_min" (446-449).
BySnr(cls, params) ==
    IF Truthy(params.snr_min)
    THEN SelectSeq(cls, LAMBDA c :
             top_detection(c.members).snr >= params.snr_min)
    ELSE cls

\* self.clusters[:max_number] (451-453).
Cut(cls, params) ==
    IF Truthy(params.max_number) /\ params.max_number < Len(cls)
    THEN SubSeq(cls, 1, params.max_number)
    ELSE cls

\* _apply_candidate_filter with the two threshold filters, then the cut to
\* the max_number brightest; a falsy setting switches its filter off.
Filtered(cls, params) == Cut(BySnr(ByDm(cls, params), params), params)

apply_candidate_filters ==
    /\ ppc = "apply_candidate_filters"
    /\ \E params \in CandidateFilters :
          clusters' = Filtered(SortedReverse(clusters, TopSnr(clusters)),
                               params)
    /\ ppc' = "build_candidates"
    /\ UNCHANGED <<num_processes, dm_trial_paths, batchNo, tsbatch, sidx, task,
                   output, search_detections, search_clusters, detections,
                   candidates, outdir, perror, nacc,
                   nreturned>>
    /\ UNCHANGED notPipeline

\* A cluster whose time series cannot be loaded again is logged and
\* skipped; bad is the file that fails to load (0: none).
build_candidates ==
    /\ ppc = "build_candidates"
    /\ \E bad \in 0..MaxTS :
          LET ok    == SelectSeq(clusters, LAMBDA c :
                           top_detection(c.members).fname # bad)
              built == [i \in 1..Len(ok) |-> Candidate(ok[i])]
          IN  candidates' =
                 SortedReverse(built,
                               [i \in 1..Len(built) |-> built[i].best_snr])
    /\ ppc' = "save_candidates"
    /\ UNCHANGED <<num_processes, dm_trial_paths, batchNo, tsbatch, sidx, task,
                   output, search_detections, search_clusters, detections,
                   clusters, outdir, perror, nacc,
                   nreturned>>
    /\ UNCHANGED notPipeline

\* The decimal digits of n.
RECURSIVE Digits(_)
Digits(n) == IF n < 10 THEN <<n>> ELSE Digits(n \div 10) \o <<n % 10>>

\* "{:04d}".format(n): the digits of n, padded with zeros to four.
Format04d(n) ==
    LET d == Digits(n)
    IN  IF Len(d) >= 4 THEN d ELSE [i \in 1..(4 - Len(d)) |-> 0] \o d

\* As SavedArtifacts, with the index taken modulo 2.
SavedArtifacts_modulo(cands) ==
    {<<"riptide_cand", Format04d(i % 2), cands[i]>> : i \in 1..Len(cands)}

\* The candidate files save_candidates writes (541-545): name prefix,
\* formatted index and content.
SavedArtifacts(cands) ==
    {<<"riptide_cand", Format04d(i), cands[i]>> : i \in 1..Len(cands)}

save_candidates ==
    /\ ppc = "save_candidates"
    /\ IF candidates = <<>>
       THEN UNCHANGED outdir
       ELSE outdir' = outdir
               \cup SavedArtifacts(candidates)
               \cup {<<"summary.csv",
                       [i \in 1..Len(candidates) |->
                           [fname |-> Format04d(i),
                            period |-> candidates[i].best_period,
                            dm |-> candidates[i].best_dm,
                            snr |-> candidates[i].best_snr]]>>}
    /\ ppc' = "done"
    /\ UNCHANGED <<num_processes, dm_trial_paths, batchNo, tsbatch, sidx, task,
                   output, search_detections, search_clusters, detections,
                   clusters, candidates, perror, nacc,
                   nreturned>>
    /\ UNCHANGED notPipeline

NextPipeline ==
    \/ select_dm_trials
    \/ iter_batches
    \/ process_time_series_batch
    \/ PulsarSearchWorker
    \/ WorkerRaises
    \/ MapReturns
    \/ MapRaises
    \/ cluster_detections
    \/ fetch_detections
    \/ fetch_clusters
    \/ save_detections
    \/ save_clusters
    \/ remove_harmonics
    \/ apply_candidate_filters
    \/ build_candidates
    \/ save_candidates

\* The manager is studied with no PipelineWorker call under way.
WorkerIdle ==
    /\ InitWorker
    /\ dirKind = "fil"
    /\ dirFiles = {}
    /\ ledgerState = "absent"

InitPipeline ==
    WorkerIdle /\ InitPipelineWith(1..MaxProcs) /\ DatesIdle /\ NoCall

SpecPipeline == InitPipeline /\ [][NextPipeline]_vars

(***************************************************************************)
(* Properties of the completion ledger (PipelineWorker).                   *)
(***************************************************************************)

\* A call that resumed from the ledger is at the top of its loop and has
\* not yet appended anything.
Resumed == pc = "loop" /\ idx = 1 /\ ~fresh

\* C1: when a call runs for a date whose ledger exists and can be read, the
\* files it schedules are exactly the files of the directory whose name is
\* in no ledger entry, and Filterbank.process never runs for a file whose
\* name is in a ledger entry.
C1_ResumeByLedger ==
    /\ Resumed => Range(FILES) = dirFiles \ Names(ledger)
    /\ InProcess => cur \notin Names(ledger)

\* C1 witness: a resumed call whose ledger records one file of the directory
\* and which schedules another.
C1_Witness ==
    /\ Resumed
    /\ Names(ledger) \cap dirFiles # {}
    /\ FILES # <<>>

\* C2: after any sequence of calls that completed or stopped on a failing
\* file, the ledger has exactly one entry for every file whose
\* Filterbank.process returned in some call, and no name twice.
C2_OneEntryPerProcessedFile ==
    pc \in {"done", "failed"} =>
        /\ Names(ledger) = Range(finished)
        /\ Len(Entries(ledger)) = Cardinality(Names(ledger))

\* C2 witness: after a second call, a ledger with two entries, one file
\* having failed on the way.
C2_Witness ==
    /\ pc \in {"done", "failed"}
    /\ runs >= 2
    /\ Len(Entries(ledger)) >= 2
    /\ failedFiles # {}

\* Files whose process raised and never returned in any call so far.
NeverSucceeded == failedFiles \ Range(finished)

\* C3: a file whose Filterbank.process raises has no ledger entry when that
\* call ends, and every later call schedules it again as long as no call
\* has processed it.
C3_FailedFileIsRetried ==
    /\ (pc = "failed" /\ cur # 0) => cur \notin Names(ledger) \cup Names(memBuf)
    /\ (pc = "loop" /\ idx = 1) => NeverSucceeded \subseteq Range(FILES)
    /\ NeverSucceeded \cap Names(ledger) = {}

\* C3 witness: a third call that schedules a file which failed before.
C3_Witness ==
    /\ pc = "loop"
    /\ idx = 1
    /\ runs >= 3
    /\ NeverSucceeded # {}

C5_LedgerShape ==
    ledger # <<>> =>
        /\ Head(ledger) = CfgRec
        /\ \A i \in 2..Len(ledger) : ledger[i].kind = "meta"
        /\ Len(ledger) - 1 <= Len(finished)
        /\ FnameSeq(Tail(ledger)) = SubSeq(finished, 1, Len(ledger) - 1)

\* C5 witness: a ledger with the snapshot and two entries.
C5_Witness == Len(ledger) >= 3 /\ runs >= 2

\* Records of s that are complete.
Complete(s) == SelectSeq(s, LAMBDA r : r.kind # "torn")

\* C6: after a crash during the processing of a file or the append of its
\* entry, the records that were complete before are read by the next call
\* without an error, and that call skips exactly their files.
C6_CrashLeavesLedgerReadable ==
    (crashes > 0 /\ ledger # <<>> /\ Head(ledger) = CfgRec) =>
        /\ error # "UnpicklingError"
        /\ Resumed => skipped = Names(Complete(ledger))

\* The step touches the on-disk products of file f: a stage of
\* Filterbank.process, the removal of "<name>.fil", or the work of a
\* subprocess nobody waited for.
SideEffect(f) ==
    \/ (cur = f /\ InProcess /\ pc' \in {"search", "plot", "fold", "dump"})
    \/ (f \in fil) # (f \in fil')
    \/ \E j \in bg \ bg' : j[1] = f

\* The entry of f has been handed to the ledger by pickle.dump.
EntryDumped(f) == f \in Names(ledger) \cup Names(memBuf)

\* C7: appending the entry of a file is the last step of its handling: no
\* step touches the products of the file once its entry has been dumped.
C7_AppendIsLastStep ==
    [][\A f \in Files : EntryDumped(f) => ~SideEffect(f)]_vars

(***************************************************************************)
(* Properties of the batch loop and of the stage order (PipelineManager).  *)
(***************************************************************************)

\* A search is searching the current batch, or about to.
Searching == ppc \in {"process", "map"}

\* C8: batches are processed strictly one after another: while any search
\* is searching batch k+1, every configured search has already added the
\* detections of batch k to its accumulator, and the searches ahead of it
\* in the inner loop have added those of batch k+1 too.
C8_BatchesSequential ==
    Searching =>
        \A s \in Searches :
            /\ nacc[s] >= batchNo - 1
            /\ s < sidx => nacc[s] = batchNo
            /\ s >= sidx => nacc[s] = batchNo - 1

\* C8 witness: the first search is searching a second batch after the last
\* search has accumulated detections of the first one.
C8_Witness ==
    /\ ppc = "map"
    /\ batchNo >= 2
    /\ sidx = 1
    /\ search_detections[NumSearches] # <<>>

\* The stages of run that follow the batch loop.
AfterBatches ==
    {"cluster", "fetch_detections", "fetch_clusters", "save_detections",
     "save_clusters", "remove_harmonics", "apply_candidate_filters",
     "build_candidates", "save_candidates", "done"}

\* cluster_detections has run for search s.
Clustered(s) ==
    \/ ppc = "cluster" /\ s < sidx
    \/ ppc \in AfterBatches \ {"cluster"}

\* C9: clustering and harmonic filtering start only after every batch has
\* been processed by every search; once cluster_detections has run for a
\* search its detection list never changes again; remove_harmonics starts
\* with every search clustered from its complete list and with the clusters
\* and detections of all searches fetched.
C9_ClusterAfterAllBatches ==
    /\ [](ppc \in AfterBatches =>
            \A s \in Searches : nacc[s] = NumBatches)
    /\ [][\A s \in Searches :
            Clustered(s) => search_detections'[s] = search_detections[s]]_vars
    /\ [](ppc = "remove_harmonics" =>
            /\ \A s \in Searches :
                  search_detections[s] # <<>> =>
                      search_clusters[s] = ClustersOf(search_detections[s])
            /\ clusters = FetchedClusters(NumSearches)
            /\ detections = FetchedDetections(NumSearches))

\* C9 witness: remove_harmonics is about to run on the clusters of two
\* searches that were fed by two batches.
C9_Witness ==
    /\ ppc = "remove_harmonics"
    /\ NumBatches >= 2
    /\ \A s \in Searches : search_clusters[s] # <<>>
    /\ Len(clusters) >= 2

\* C10: process_time_series_batch is a full barrier with all-or-nothing
\* accumulation: while pool.map runs the detection lists do not change; it
\* returns only when every task of the batch has returned, and then the
\* detections of the whole batch are added; if a task raised, the only way
\* out is the exception, which ends run and leaves every detection list as
\* it was before the batch.
C10_BarrierAllOrNothing ==
    [][ppc = "map" =>
        /\ ppc' = "map" => search_detections' = search_detections
        /\ ppc' \notin {"map", "failed"} =>
              /\ \A i \in 1..Len(task) : task[i] = "done"
              /\ search_detections' =
                    [search_detections EXCEPT
                        ![sidx] = @ \o new_detections(output)]
        /\ (\E i \in 1..Len(task) : task[i] = "raised") =>
              ppc' \in {"map", "failed"}
        /\ ppc' = "failed" =>
              /\ perror' = "WorkerError"
              /\ search_detections' = search_detections]_vars

\* C10 witness: a batch of two tasks failed after one task had returned
\* detections, which were dropped with the batch.
C10_Witness ==
    /\ ppc = "failed"
    /\ Len(task) >= 2
    /\ \E i \in 1..Len(task) : task[i] = "done" /\ output[i] # <<>>
    /\ search_detections[sidx] = <<>>

(***************************************************************************)
(* Properties of the detection accumulator (PulsarSearch).                 *)
(***************************************************************************)

\* s is t followed by zero or more elements.
Extends(s, t) == Len(t) <= Len(s) /\ SubSeq(s, 1, Len(t)) = t

\* The element of the lists of out that comes at place n when the lists are
\* read one after another in the order of the inputs.
RECURSIVE InInputOrder(_, _)
InInputOrder(out, n) ==
    IF n <= Len(out[1]) THEN out[1][n]
    ELSE InInputOrder(Tail(out), n - Len(out[1]))

\* C11: the detection list of a search only grows by appending: no step
\* removes or replaces an element of it; a successful batch leaves the old
\* list followed by every detection the workers returned, in worker-input
\* order, nothing deduplicated; the list of no other search changes; and at
\* all times the length of the list is the number of detections returned by
\* all the batches of the search.
C11_AccumulatorAppends ==
    /\ [][\A s \in Searches :
            Extends(search_detections'[s], search_detections[s])]_vars
    /\ [][(ppc = "map" /\ ppc' \notin {"map", "failed"}) =>
            LET old == search_detections[sidx]
                new == search_detections'[sidx]
            IN  /\ Len(new) = Len(old) + NumReturned(output)
                /\ \A n \in 1..NumReturned(output) :
                      new[Len(old) + n] = InInputOrder(output, n)
                /\ \A s \in Searches \ {sidx} :
                      search_detections'[s] = search_detections[s]]_vars
    /\ [](\A s \in Searches : Len(search_detections[s]) = nreturned[s])

\* C11 witness: all batches are done, and one search holds the detections
\* of two batches, those of the first batch first.
C11_Witness ==
    /\ ppc = "cluster"
    /\ num_processes = 1
    /\ \E s \in Searches :
          /\ nacc[s] >= 2
          /\ Len(search_detections[s]) >= 2
          /\ search_detections[s][1].dm < search_detections[s][2].dm

(***************************************************************************)
(* Part III.  wkr_manager.PipelineManager.process maps PipelineWorker over *)
(* the analysis dates with a process pool: the workers of two dates run at *)
(* the same time, in the working directory the pool inherited.  The dates  *)
(* hold "*.raw" files.  Of Filterbank.process the model keeps the steps    *)
(* that touch the working directory, and the append to the ledger.         *)
(***************************************************************************)

\* The pool hands date d to a process: PipelineWorker.__call__ starts.
DateCall(d) ==
    /\ dpos[d] = "idle"
    /\ dpos' = [dpos EXCEPT ![d] = "cp"]
    /\ UNCHANGED <<dfile, gptool_in, rm_cwd, mitigated, dledger, clobbered>>
    /\ UNCHANGED notDates

\* gmrt_psr_tool, lines 355-363: cp <template> ./gptool.in, waited for.
CopyTemplate(d) ==
    /\ dpos[d] = "cp"
    /\ gptool_in' = d
    /\ dpos' = [dpos EXCEPT ![d] = "gptool"]
    /\ UNCHANGED <<dfile, rm_cwd, mitigated, dledger, clobbered>>
    /\ UNCHANGED notDates

\* gmrt_psr_tool, lines 366-386: gptool runs in the working directory and
\* reads its settings from ./gptool.in.
RunGptool(d) ==
    /\ dpos[d] = "gptool"
    /\ mitigated' = IF gptool_in # 0
                    THEN [mitigated EXCEPT ![d] = @ \cup {dfile[d] + 1}]
                    ELSE mitigated
    /\ dpos' = [dpos EXCEPT ![d] = "filterbank"]
    /\ UNCHANGED <<dfile, gptool_in, rm_cwd, dledger, clobbered>>
    /\ UNCHANGED notDates

\* create_filterbank, line 449: Popen("rm -rf *gpt*", shell=True) is started
\* in the working directory and never waited for.
create_filterbank(d) ==
    /\ dpos[d] = "filterbank"
    /\ rm_cwd' = rm_cwd \cup {d}
    /\ dpos' = [dpos EXCEPT ![d] = "rest"]
    /\ UNCHANGED <<dfile, gptool_in, mitigated, dledger, clobbered>>
    /\ UNCHANGED notDates

\* The rm started by date d runs: every "*gpt*" of the working directory
\* goes, whoever put it there.
RmGpt(d) ==
    /\ d \in rm_cwd
    /\ rm_cwd' = rm_cwd \ {d}
    /\ gptool_in' = 0
    /\ clobbered' = IF gptool_in \notin {0, d} /\ dpos[gptool_in] = "gptool"
                    THEN clobbered \cup {gptool_in}
                    ELSE clobbered
    /\ UNCHANGED <<dpos, dfile, mitigated, dledger>>
    /\ UNCHANGED notDates

\* The rest of Filterbank.process and the append to "./<date>.history.log";
\* then the next file of the date, or the end of the call.
DateAppend(d) ==
    /\ dpos[d] = "rest"
    /\ dledger' = [dledger EXCEPT ![d] = Append(@, dfile[d] + 1)]
    /\ dfile' = [dfile EXCEPT ![d] = @ + 1]
    /\ dpos' = [dpos EXCEPT ![d] =
                    IF dfile[d] + 1 < MaxDateFiles THEN "cp" ELSE "done"]
    /\ UNCHANGED <<gptool_in, rm_cwd, mitigated, clobbered>>
    /\ UNCHANGED notDates

NextDates ==
    \/ \E d \in Dates : DateCall(d)
    \/ \E d \in Dates : CopyTemplate(d)
    \/ \E d \in Dates : RunGptool(d)
    \/ \E d \in Dates : create_filterbank(d)
    \/ \E d \in Dates : RmGpt(d)
    \/ \E d \in Dates : DateAppend(d)

InitDates == WorkerIdle /\ InitPipelineWith({1}) /\ DatesIdle /\ NoCall

SpecDates == InitDates /\ [][NextDates]_vars

\* C12: the workers of two dates are independent: no step of the worker of
\* one date takes away a file the worker of another date has put in place
\* and not yet used, so that no interleaving changes what a date produces.
C12_DatesIndependent == clobbered = {}

(***************************************************************************)
(* Part IV.  Functions of pipeline.py and utilities.py, called once on     *)
(* arguments drawn from small sets.                                        *)
(*                                                                         *)
(* DM values are whole numbers of ticks; a DM step of DMUnit ticks makes   *)
(* the tolerance step * 1e-7 of iter_steps one tick wide.  Arithmetic is   *)
(* exact: the rounding of the floating point operations is not modelled.   *)
(***************************************************************************)

\* The value None of an optional setting.
None == 0 - 1

\* 1 / rtol of iter_steps and step_iter.
RtolDen == 10000000

\* 1 / eps of get_galactic_dm_limit: eps is one millionth.
EpsDen == 1000000

DMUnit == RtolDen

\* The DM trial values the headers may hold: the grid, and values one and
\* two ticks short of it.
DMGrid == {0, DMUnit - 1, DMUnit, 2 * DMUnit - 2, 2 * DMUnit, 3 * DMUnit}

\* sin(b) of the galactic latitude b of the first file, in millionths.
SinB == {0 - 999999, 0, 499999}

\* min() and max() of a non-empty collection.
Smallest(S) == CHOOSE v \in S : \A w \in S : v <= w

Largest(S) == CHOOSE v \in S : \A w \in S : w <= v

\* sorted(list(sequence))
RECURSIVE Sorted(_)
Sorted(S) ==
    IF S = {} THEN <<>> ELSE <<Smallest(S)>> \o Sorted(S \ {Smallest(S)})

\* As FarEnough, with every value accepted.
FarEnough_always(last, value, step) == TRUE

\* value - last >= step * (1 - rtol), that is RtolDen * (step - (value -
\* last)) <= step, evaluated without leaving 32 bits.
FarEnough(last, value, step) ==
    LET short == step - (value - last)
    IN  IF short <= 0 THEN TRUE
        ELSE IF short > 214 THEN FALSE
        ELSE short * RtolDen <= step

\* The loop of step_iter (129-134) over the sorted, masked array.
RECURSIVE Yield(_, _, _)
Yield(array, last, step) ==
    IF array = <<>> THEN <<>>
    ELSE IF last = None \/ FarEnough(last, Head(array), step)
         THEN <<Head(array)>> \o Yield(Tail(array), Head(array), step)
         ELSE Yield(Tail(array), last, step)

\* utilities.step_iter
step_iter(sequence, vmin, vmax, step) ==
    Yield(Sorted({v \in sequence : v >= vmin /\ v <= vmax}), None, step)

\* iter_steps of select_dm_trials: the same code as utilities.step_iter.
iter_steps(sequence, vmin, vmax, step) ==
    Yield(Sorted({v \in sequence : v >= vmin /\ v <= vmax}), None, step)

get_lower_dm_limit(dm_trials, dm_min) ==
    IF dm_min # None THEN dm_min ELSE Smallest(dm_trials)

\* The largest value TLC can hold stands for every larger limit.
Huge == 2147483647

\* dmsinb_max / (sin(abs(glat)) + eps).  sinb is sin(glat) in millionths;
\* the divisors the model draws divide EpsDen, so the quotient is exact.
get_galactic_dm_limit(sinb, dmsinb_max) ==
    LET sinabs == IF sinb < 0 THEN 0 - sinb ELSE sinb
        times  == EpsDen \div (sinabs + 1)
    IN  IF dmsinb_max > Huge \div times THEN Huge ELSE dmsinb_max * times

\* As get_upper_dm_limit, without the galactic clamp.
get_upper_dm_limit_unclamped(dm_trials, sinb, dm_max, dmsinb_max) ==
    IF dm_max # None /\ dm_max < Largest(dm_trials)
    THEN dm_max ELSE Largest(dm_trials)

get_upper_dm_limit(dm_trials, sinb, dm_max, dmsinb_max) ==
    LET r1 == Largest(dm_trials)
        r2 == IF dm_max # None /\ dm_max < r1 THEN dm_max ELSE r1
        g  == get_galactic_dm_limit(sinb, dmsinb_max)
    IN  IF dmsinb_max # None /\ g < r2 THEN g ELSE r2

\* The arguments of one call: the DM values found in the headers and the
\* settings dm_min, dm_max, dm_step, dmsinb_max of the manager.
MaxTrials == 3

SelectArgs ==
    [dm_trials : {S \in SUBSET DMGrid : Cardinality(S) <= MaxTrials},
     dm_min : {None, 0, DMUnit},
     dm_max : {None, 2 * DMUnit - 1},
     dm_step : {0, DMUnit},
     dmsinb_max : {None, 2 * DMUnit},
     sinb : SinB]

\* utilities.step_iter called with numbers for vmin and vmax.
CallStepIter ==
    /\ fn = ""
    /\ arg \in SelectArgs
    /\ arg.dm_min # None /\ arg.dm_max # None
    /\ fn' = "step_iter"
    /\ res' = [raised |-> FALSE,
               values |-> step_iter(arg.dm_trials, arg.dm_min, arg.dm_max,
                                    arg.dm_step)]
    /\ UNCHANGED arg
    /\ UNCHANGED notCall

\* select_dm_trials, lines 318-343.  With no file the limits stay as
\* configured, and comparing the empty array with None is left to numpy:
\* the model allows both an empty selection and a TypeError.
CallSelectDmTrials ==
    /\ fn = ""
    /\ arg \in SelectArgs
    /\ fn' = "select_dm_trials"
    /\ IF arg.dm_trials = {}
       THEN \E raised \in BOOLEAN :
               /\ raised => (arg.dm_min = None \/ arg.dm_max = None)
               /\ res' = [raised |-> raised, values |-> <<>>,
                          dm_min |-> arg.dm_min, dm_max |-> arg.dm_max]
       ELSE LET dm_min == get_lower_dm_limit(arg.dm_trials, arg.dm_min)
                dm_max == get_upper_dm_limit(arg.dm_trials, arg.sinb,
                                             arg.dm_max, arg.dmsinb_max)
            IN  res' = [raised |-> FALSE,
                        values |-> iter_steps(arg.dm_trials, dm_min, dm_max,
                                              arg.dm_step),
                        dm_min |-> dm_min, dm_max |-> dm_max]
    /\ UNCHANGED arg
    /\ UNCHANGED notCall

NextSelect == CallStepIter \/ CallSelectDmTrials

InitSelect ==
    /\ WorkerIdle /\ InitPipelineWith({1}) /\ DatesIdle
    /\ fn = ""
    /\ arg \in SelectArgs
    /\ res = <<>>

SpecSelect == InitSelect /\ [][NextSelect]_vars

\* The call under way is one of the two DM selections.
Selected == fn \in {"step_iter", "select_dm_trials"} /\ ~res.raised

\* C13: the DM selection returns values in ascending order, of which no two
\* differ by less than dm_step * (1 - 1e-7), and the first value returned
\* is the smallest trial value in range (for select_dm_trials the range is
\* the one it computed).
C13_SelectionSeparated ==
    Selected =>
        LET v  == res.values
            lo == IF fn = "step_iter" THEN arg.dm_min ELSE res.dm_min
            hi == IF fn = "step_iter" THEN arg.dm_max ELSE res.dm_max
            inrange == {x \in arg.dm_trials : x >= lo /\ x <= hi}
        IN  /\ \A i, j \in 1..Len(v) :
                  i < j =>
                     /\ v[i] <= v[j]
                     /\ (v[j] - v[i] >= arg.dm_step
                         \/ ((arg.dm_step - (v[j] - v[i])) <= 214
                             /\ (arg.dm_step - (v[j] - v[i])) * 10000000
                                    <= arg.dm_step))
            /\ \A i \in 1..Len(v) : v[i] \in inrange
            /\ inrange # {} =>
                  (v # <<>> /\ \A x \in inrange : v[1] <= x)

\* C13 witness: a selection that kept a value one tick short of a full
\* step and dropped a trial value that was in range.
C13_Witness ==
    /\ Selected
    /\ arg.dm_step = DMUnit
    /\ \E i \in 1..(Len(res.values) - 1) :
          res.values[i + 1] - res.values[i] = DMUnit - 1
    /\ \E x \in arg.dm_trials :
          /\ x > res.values[1]
          /\ x < res.values[Len(res.values)]
          /\ \A i \in 1..Len(res.values) : res.values[i] # x

\* C14: every DM trial selected lies in [dm_min, dm_max], where dm_min is
\* the configured value or else the smallest available trial, and dm_max is
\* the least of the largest available trial, the configured dm_max when set
\* and the galactic limit dmsinb_max / (sin|b| + 1e-6) when dmsinb_max is
\* set; dm_max never exceeds the galactic limit.
C14_SelectionInRange ==
    (fn = "select_dm_trials" /\ ~res.raised /\ arg.dm_trials # {}) =>
        LET lo == IF arg.dm_min # None THEN arg.dm_min
                  ELSE Smallest(arg.dm_trials)
            b  == IF arg.sinb < 0 THEN 0 - arg.sinb ELSE arg.sinb
            k  == 1000000 \div (b + 1)
            \* v <= dmsinb_max / ((b + 1) / 1000000)
            UnderGalactic(v) == (v + k - 1) \div k <= arg.dmsinb_max
            hi == res.dm_max
        IN  /\ res.dm_min = lo
            /\ hi <= Largest(arg.dm_trials)
            /\ arg.dm_max # None => hi <= arg.dm_max
            /\ arg.dmsinb_max # None => UnderGalactic(hi)
            /\ \/ hi = Largest(arg.dm_trials)
               \/ arg.dm_max # None /\ hi = arg.dm_max
               \/ arg.dmsinb_max # None /\ ~UnderGalactic(hi + 1)
            /\ \A i \in 1..Len(res.values) :
                  res.values[i] >= lo /\ res.values[i] <= hi

\* C14 witness: a selection whose upper limit is the galactic one, below
\* the largest trial and with no dm_max configured, that left a trial out.
C14_Witness ==
    /\ fn = "select_dm_trials" /\ ~res.raised
    /\ arg.dm_trials # {}
    /\ arg.dmsinb_max # None /\ arg.dm_max = None /\ arg.sinb < 0
    /\ res.dm_max < Largest(arg.dm_trials)
    /\ res.values # <<>>
    /\ res.values[Len(res.values)] = res.dm_max

(***************************************************************************)
(* grouper: pipeline.py 65-77 and utilities.py 78-101 (the same code).     *)
(***************************************************************************)

MaxItems == 4

MaxN == 3

\* The inputs are file paths, here numbered; a path is never None.
GrouperArgs ==
    [iterable : UNION {[1..l -> 1..2] : l \in 0..MaxItems}, n : 1..MaxN]

\* The g-th tuple of zip_longest(*[iter(iterable)] * n, fillvalue=None).
ZipLongestGroup(iterable, n, g) ==
    [j \in 1..n |->
        IF (g - 1) * n + j <= Len(iterable)
        THEN iterable[(g - 1) * n + j] ELSE None]

NotNone(val) == val # None

\* As Groups, with the padding left in the groups.
Groups_padded(iterable, n) ==
    [g \in 1..((Len(iterable) + n - 1) \div n) |->
        ZipLongestGroup(iterable, n, g)]

\* list(grouper(iterable, n)): zip_longest stops when the shared iterator
\* gives nothing for a new tuple.
Groups(iterable, n) ==
    [g \in 1..((Len(iterable) + n - 1) \div n) |->
        SelectSeq(ZipLongestGroup(iterable, n, g), NotNone)]

CallGrouper ==
    /\ fn = ""
    /\ fn' = "grouper"
    /\ res' = Groups(arg.iterable, arg.n)
    /\ UNCHANGED arg
    /\ UNCHANGED notCall

NextGrouper == CallGrouper

InitGrouper ==
    /\ WorkerIdle /\ InitPipelineWith({1}) /\ DatesIdle
    /\ fn = ""
    /\ arg \in GrouperArgs
    /\ res = <<>>

SpecGrouper == InitGrouper /\ [][NextGrouper]_vars

RECURSIVE Concat(_)
Concat(batches) ==
    IF batches = <<>> THEN <<>> ELSE Head(batches) \o Concat(Tail(batches))

\* C15: the batches of grouper(iterable, n), concatenated in order, give
\* back the input exactly; every batch but the last has exactly n elements,
\* the last has between 1 and n, and no padding entry is in a batch.
C15_BatchesPartitionInput ==
    fn = "grouper" =>
        /\ Concat(res) = arg.iterable
        /\ \A g \in 1..Len(res) :
              /\ g < Len(res) => Len(res[g]) = arg.n
              /\ Len(res[g]) >= 1 /\ Len(res[g]) <= arg.n
              /\ \A j \in 1..Len(res[g]) : res[g][j] # None
        /\ \A g \in 1..Len(res) : \A j \in 1..Len(res[g]) :
              res[g][j] = arg.iterable[(g - 1) * arg.n + j]

\* C15 witness: several batches, the last of them short.
C15_Witness ==
    /\ fn = "grouper"
    /\ Len(res) >= 2
    /\ Len(res[Len(res)]) < arg.n
    /\ Len(res[1]) = arg.n

(***************************************************************************)
(* cluster_detections and the steps after it, called on the detections of  *)
(* one search drawn with varied periods and signal-to-noise ratios.        *)
(***************************************************************************)

MaxClusterDets == 3

\* Periods whose beat indices 12 / period are 6, 4, 3 and 2.
Periods == {2, 3, 4, 6}

\* Detection lists of one search; fname numbers the detections.
DetectionLists ==
    UNION {{[i \in 1..l |-> [period |-> p[i],
                              dm |-> IF p[i] = 6 THEN 0 ELSE 2,
                              snr |-> q[i], fname |-> i]] :
               p \in [1..l -> Periods], q \in [1..l -> 1..2]} :
           l \in 0..MaxClusterDets}

\* PulsarSearch.cluster_detections; res holds self.clusters and the top
\* detection of each cluster.
CallClusterDetections ==
    /\ fn = ""
    /\ fn' = "cluster_detections"
    /\ LET cls == IF arg = <<>> THEN <<>> ELSE ClustersOf(arg)
       IN  res' = [clusters |-> cls,
                   top |-> [c \in 1..Len(cls) |-> top_detection(cls[c])]]
    /\ UNCHANGED arg
    /\ UNCHANGED notCall

InitCluster ==
    /\ WorkerIdle /\ InitPipelineWith({1}) /\ DatesIdle
    /\ fn = ""
    /\ arg \in DetectionLists
    /\ res = <<>>

\* C16: every cluster built by cluster_detections is non-empty and its
\* top_detection is a member of maximum snr, the first such member of the
\* cluster when several share the maximum.
C16_TopDetectionFirstMax ==
    fn = "cluster_detections" =>
        \A c \in 1..Len(res.clusters) :
            LET cl == res.clusters[c]
            IN  /\ Len(cl) >= 1
                /\ \E i \in 1..Len(cl) :
                      /\ res.top[c] = cl[i]
                      /\ \A j \in 1..Len(cl) : cl[j].snr <= cl[i].snr
                      /\ \A j \in 1..Len(cl) :
                            cl[j].snr = cl[i].snr => i <= j

\* C16 witness: a cluster in which two members share the maximum snr.
C16_Witness ==
    /\ fn = "cluster_detections"
    /\ \E c \in 1..Len(res.clusters) :
          \E i, j \in 1..Len(res.clusters[c]) :
             /\ i < j
             /\ res.clusters[c][i].snr = res.clusters[c][j].snr
             /\ res.top[c] = res.clusters[c][i]
             /\ Len(res.clusters[c]) >= 3

\* The detections reached from those of S by steps of at most one radius
\* in beat index.
RECURSIVE Chained(_, _)
Chained(S, dets) ==
    LET more == {j \in 1..Len(dets) :
                    \E i \in S :
                       LET d == (12 \div dets[i].period)
                                   - (12 \div dets[j].period)
                       IN  d <= 1 /\ 0 - d <= 1}
    IN  IF more \subseteq S THEN S ELSE Chained(S \cup more, dets)

\* C17: cluster_detections puts every detection of the search in exactly
\* one cluster, and two detections in the same cluster exactly when a
\* chain of detections links them whose consecutive beat indices
\* tobs/period lie within the clustering radius; beat indices (10.01,
\* 10.02, 50.0) with radius 0.05 cluster as {10.01, 10.02}, {50.0}.
C17_SingleLinkagePartition ==
    /\ cluster_1d(<<1001, 1002, 5000>>, 5) = <<(<<1, 2>>), (<<3>>)>>
    /\ fn = "cluster_detections" =>
          LET cls == res.clusters
              In(i, c) == \E k \in 1..Len(cls[c]) : cls[c][k] = arg[i]
          IN  /\ \A i \in 1..Len(arg) :
                    \E c \in 1..Len(cls) :
                       /\ In(i, c)
                       /\ \A e \in 1..Len(cls) : In(i, e) => e = c
              /\ \A c \in 1..Len(cls) : \A k \in 1..Len(cls[c]) :
                    \E i \in 1..Len(arg) : cls[c][k] = arg[i]
              /\ \A c \in 1..Len(cls) : \A k, m \in 1..Len(cls[c]) :
                    cls[c][k] = cls[c][m] => k = m
              /\ \A i, j \in 1..Len(arg) :
                    (\E c \in 1..Len(cls) : In(i, c) /\ In(j, c))
                       <=> j \in Chained({i}, arg)

\* C17 witness: a cluster whose ends are more than a radius apart, linked
\* through a third detection.
C17_Witness ==
    /\ fn = "cluster_detections"
    /\ \E c \in 1..Len(res.clusters) : \E k, m \in 1..Len(res.clusters[c]) :
          (12 \div res.clusters[c][k].period)
             - (12 \div res.clusters[c][m].period) > 1

\* fetch_clusters for the one search of this part.
TaggedClusters(dets) ==
    LET cl == IF dets = <<>> THEN <<>> ELSE ClustersOf(dets)
    IN  [i \in 1..Len(cl) |-> [search |-> 1, members |-> cl[i]]]

\* remove_harmonics on the clusters of the detections in arg; res keeps
\* the sorted list that was classified, the flags and the list retained.
CallRemoveHarmonics ==
    /\ fn = ""
    /\ fn' = "remove_harmonics"
    /\ \E enabled \in BOOLEAN :
          LET cls == TaggedClusters(arg)
          IN  IF ~enabled \/ arg = <<>>
              THEN res' = [enabled |-> enabled, sorted |-> cls,
                           cparams |-> <<>>, clusters |-> cls]
              ELSE LET sorted == SortedReverse(cls, TopSnr(cls))
                       fundamentals == Fundamentals(sorted)
                   IN  res' = [enabled |-> enabled, sorted |-> sorted,
                               cparams |->
                                  flag_harmonics(
                                     [i \in 1..Len(sorted) |->
                                         to_dict(sorted[i])]),
                               clusters |->
                                  [i \in 1..Len(fundamentals) |->
                                      fundamentals[i].cl]]
    /\ UNCHANGED arg
    /\ UNCHANGED notCall

\* The cluster cl is in the list cls.
Retained(cl, cls) == \E k \in 1..Len(cls) : cls[k] = cl

\* The largest snr among the members of a cluster.
MaxSnr(cl) ==
    CHOOSE m \in {cl.members[k].snr : k \in 1..Len(cl.members)} :
        \A k \in 1..Len(cl.members) : cl.members[k].snr <= m

\* C18: after remove_harmonics with harmonic filtering enabled, no cluster
\* flagged as harmonic is in the retained list, every unflagged cluster is
\* retained, and the fundamental_index of a flagged cluster refers to a
\* cluster of equal or greater top-detection snr that is itself retained.
C18_HarmonicsRemoved ==
    (fn = "remove_harmonics" /\ res.enabled /\ arg # <<>>) =>
        /\ Len(res.cparams) = Len(res.sorted)
        /\ \A i \in 1..Len(res.sorted) :
              IF res.cparams[i].is_harmonic
              THEN LET f == res.cparams[i].fundamental_index
                   IN  /\ ~Retained(res.sorted[i], res.clusters)
                       /\ f \in 1..Len(res.sorted)
                       /\ MaxSnr(res.sorted[f]) >= MaxSnr(res.sorted[i])
                       /\ Retained(res.sorted[f], res.clusters)
              ELSE Retained(res.sorted[i], res.clusters)
        /\ \A c \in {TaggedClusters(arg)[k] : k \in 1..Len(TaggedClusters(arg))} :
              Retained(c, res.sorted)
        /\ \A k \in 1..Len(res.clusters) :
              Retained(res.clusters[k], res.sorted)

\* C18 witness: a cluster flagged as a harmonic of a strictly brighter
\* one that was not first in the unsorted list, with a third cluster
\* retained.
C18_Witness ==
    /\ fn = "remove_harmonics" /\ res.enabled
    /\ Len(res.sorted) >= 3
    /\ Len(res.clusters) = 2
    /\ res.sorted # TaggedClusters(arg)
    /\ \E i \in 1..Len(res.sorted) :
          /\ res.cparams[i].is_harmonic
          /\ MaxSnr(res.sorted[res.cparams[i].fundamental_index])
                > MaxSnr(res.sorted[i])

\* Settings of config['candidate_filters'], unset ones included.
FilterSettings ==
    [dm_min : {None, 0, 2}, snr_min : {None, 0, 2}, max_number : {None, 0, 1}]

\* apply_candidate_filters on the clusters of the detections in arg, with
\* the settings drawn from FilterSettings; res keeps the list after each
\* step.
CallApplyCandidateFilters ==
    /\ fn = ""
    /\ fn' = "apply_candidate_filters"
    /\ \E params \in FilterSettings :
          LET cls == TaggedClusters(arg)
              sorted == SortedReverse(cls, TopSnr(cls))
          IN  res' = [params |-> params,
                      sorted |-> sorted,
                      byDm |-> ByDm(sorted, params),
                      bySnr |-> BySnr(ByDm(sorted, params), params),
                      clusters |-> Filtered(sorted, params)]
    /\ UNCHANGED arg
    /\ UNCHANGED notCall

\* The clusters of arg that pass both thresholds of the call, by
\* descending top-detection snr.
Passing ==
    LET cls == TaggedClusters(arg)
        sorted == SortedReverse(cls, TopSnr(cls))
    IN  SelectSeq(sorted, LAMBDA c :
           /\ top_detection(c.members).dm >= res.params.dm_min
           /\ top_detection(c.members).snr >= res.params.snr_min)

\* The same, with the snr threshold applied before the dm threshold.
PassingSnrFirst ==
    LET cls == TaggedClusters(arg)
        sorted == SortedReverse(cls, TopSnr(cls))
        bySnr == SelectSeq(sorted, LAMBDA c :
                    top_detection(c.members).snr >= res.params.snr_min)
    IN  SelectSeq(bySnr, LAMBDA c :
           top_detection(c.members).dm >= res.params.dm_min)

\* The first n elements of s.
FirstN(s, n) == SubSeq(s, 1, IF n < Len(s) THEN n ELSE Len(s))

\* The three settings of the call are numbers.
FiltersGiven ==
    /\ res.params.dm_min # None
    /\ res.params.snr_min # None
    /\ res.params.max_number # None

\* C19 as stated: for every cluster list and every (dm_min = X, snr_min =
\* Y, max_number = N), apply_candidate_filters returns the clusters whose
\* top detection has dm >= X and snr >= Y, by descending top-detection
\* snr, truncated to the first N.
C19_FilteredAndTruncated ==
    (fn = "apply_candidate_filters" /\ FiltersGiven) =>
        res.clusters = FirstN(Passing, res.params.max_number)

\* C19, amended: apply_candidate_filters returns the clusters whose top
\* detection has dm >= X and snr >= Y, by descending top-detection snr,
\* truncated to the first N when N is not zero and whole when N is zero;
\* the result is the same whichever threshold is applied first, and the
\* truncation comes last.
C19_FilteredTruncatedIfSet ==
    (fn = "apply_candidate_filters" /\ FiltersGiven) =>
        /\ res.clusters = IF res.params.max_number = 0 THEN Passing
                          ELSE FirstN(Passing, res.params.max_number)
        /\ Passing = PassingSnrFirst
        /\ \A i, j \in 1..Len(res.clusters) :
              i < j => MaxSnr(res.clusters[i]) >= MaxSnr(res.clusters[j])

\* C19 witness: both thresholds and the truncation are set, the brightest
\* cluster fails the dm threshold, and of two passing clusters one is kept.
C19_Witness ==
    /\ fn = "apply_candidate_filters"
    /\ res.params.dm_min = 2 /\ res.params.snr_min = 2
    /\ res.params.max_number = 1
    /\ Len(Passing) = 2
    /\ Len(res.clusters) = 1
    /\ top_detection(
          SortedReverse(TaggedClusters(arg),
                        TopSnr(TaggedClusters(arg)))[1].members).dm
          < res.params.dm_min

\* As BuildLoop, with the loop inside one try block: the first failure
\* ends it.
RECURSIVE BuildLoop_aborting(_, _, _)
BuildLoop_aborting(cls, failing, i) ==
    IF i > Len(cls) \/ i \in failing THEN <<>>
    ELSE <<Candidate(cls[i])>> \o BuildLoop_aborting(cls, failing, i + 1)

\* The loop of build_candidates from cluster i on (464-485): a cluster
\* whose loading, preprocessing or Candidate construction raises is logged
\* and adds nothing.
RECURSIVE BuildLoop(_, _, _)
BuildLoop(cls, failing, i) ==
    IF i > Len(cls) THEN <<>>
    ELSE (IF i \in failing THEN <<>> ELSE <<Candidate(cls[i])>>)
            \o BuildLoop(cls, failing, i + 1)

\* build_candidates on the clusters of the detections in arg; failing is
\* the set of positions whose construction raises.
CallBuildCandidates ==
    /\ fn = ""
    /\ fn' = "build_candidates"
    /\ LET cls == TaggedClusters(arg)
       IN  \E failing \in SUBSET (1..Len(cls)) :
              LET built == BuildLoop(cls, failing, 1)
              IN  res' = [clusters |-> cls, failing |-> failing,
                          candidates |->
                             SortedReverse(built,
                                [i \in 1..Len(built) |-> built[i].best_snr])]
    /\ UNCHANGED arg
    /\ UNCHANGED notCall

\* C20: in build_candidates a failure to reload, preprocess or build the
\* candidate of one cluster never aborts the others: the candidates built
\* are exactly those of the clusters whose own construction succeeds,
\* whatever the positions of the failing clusters.
C20_FailuresSkippedOnly ==
    fn = "build_candidates" =>
        LET ok == (1..Len(res.clusters)) \ res.failing
        IN  /\ Len(res.candidates) = Cardinality(ok)
            /\ \A i \in ok :
                  \E k \in 1..Len(res.candidates) :
                     /\ res.candidates[k].best_period
                           = top_detection(res.clusters[i].members).period
                     /\ res.candidates[k].best_snr
                           = top_detection(res.clusters[i].members).snr
                     /\ res.candidates[k].search = res.clusters[i].search
            /\ \A k \in 1..Len(res.candidates) :
                  \E i \in ok :
                     res.candidates[k].best_period
                        = top_detection(res.clusters[i].members).period

\* C20 witness: the first and the last of three clusters fail and the
\* one between them is built.
C20_Witness ==
    /\ fn = "build_candidates"
    /\ Len(res.clusters) = 3
    /\ res.failing = {1, 3}
    /\ Len(res.candidates) = 1

(***************************************************************************)
(* Properties of a run of PipelineManager (pipeline.py), continued.        *)
(***************************************************************************)

\* No search has accumulated a detection.
NoDetections == \A s \in Searches : search_detections[s] = <<>>

\* The place of a stage in run, lines 577-591.
StageNo(p) ==
    CASE p = "cluster" -> 1
      [] p = "fetch_detections" -> 2
      [] p = "fetch_clusters" -> 3
      [] p = "save_detections" -> 4
      [] p = "save_clusters" -> 5
      [] p = "remove_harmonics" -> 6
      [] p = "apply_candidate_filters" -> 7
      [] p = "build_candidates" -> 8
      [] p = "save_candidates" -> 9
      [] p = "done" -> 10

\* C21: empty inputs are not errors in run: when the searches produced no
\* detection, there is no cluster and no candidate, every stage after the
\* batches returns without an exception and writes no table and no
\* candidate file, and the run completes: no stage is stuck, and every
\* step is the return of a stage to the next one (or to the clustering of
\* the next search).
C21_EmptyRunCompletes ==
    /\ []((ppc \in AfterBatches /\ NoDetections) =>
             /\ perror = ""
             /\ outdir = {}
             /\ detections = <<>> /\ clusters = <<>> /\ candidates = <<>>
             /\ \A s \in Searches : search_clusters[s] = <<>>
             /\ ppc # "done" => ENABLED NextPipeline)
    /\ [][(ppc \in AfterBatches /\ NoDetections) =>
             /\ ppc' \in AfterBatches
             /\ \/ StageNo(ppc') = StageNo(ppc) + 1
                \/ ppc = "cluster" /\ ppc' = "cluster" /\ sidx' = sidx + 1]_vars

\* C21 witness: a run over several DM trials in which no search found a
\* peak has completed.
C21_Witness ==
    /\ ppc = "done"
    /\ NoDetections
    /\ Len(dm_trial_paths) >= 2
    /\ \A s \in Searches : nacc[s] = NumBatches
    /\ outdir = {}

(***************************************************************************)
(* Meta(attrs) of metas.py, called on attribute mappings drawn from a      *)
(* small set of keys and values.                                           *)
(***************************************************************************)

\* _required_attrs_, in the order of the dictionary.
RequiredKeys ==
    <<"fname", "proc_dm_trials", "num_candidates", "num_fold_prfs",
      "num_arv_prfs">>

RequiredType(key) == IF key = "fname" THEN "str" ELSE "int"

\* A key that is not required.
OtherKeys == {"tobs"}

MetaKeys == {RequiredKeys[i] : i \in 1..Len(RequiredKeys)} \cup OtherKeys

\* The key is not in the mapping.
Absent == [type |-> "absent", val |-> 0]

NoneValue == [type |-> "NoneType", val |-> 0]

\* Values by type; val tells two values of one type apart.
AttrValues ==
    {NoneValue, [type |-> "str", val |-> 1], [type |-> "int", val |-> 0],
     [type |-> "int", val |-> 3], [type |-> "bool", val |-> 1],
     [type |-> "float", val |-> 2]}

AttrMappings == [MetaKeys -> AttrValues \cup {Absent}]

\* isinstance(val, t): bool is a subclass of int.
IsInstance(val, t) == val.type = t \/ (val.type = "bool" /\ t = "int")

\* self.get(key, None)
Get(self, key) == IF self[key] = Absent THEN NoneValue ELSE self[key]

\* As Finalise, with zero for an absent required key.
RECURSIVE Finalise_zero(_, _)
Finalise_zero(self, i) ==
    IF i > Len(RequiredKeys) THEN [raised |-> FALSE, meta |-> self]
    ELSE LET key == RequiredKeys[i]
             val == Get(self, key)
         IN  IF val = NoneValue
             THEN Finalise_zero([self EXCEPT ![key] =
                                     IF self[key] = Absent
                                     THEN [type |-> "int", val |-> 0]
                                     ELSE val], i + 1)
             ELSE IF ~IsInstance(val, RequiredType(key))
             THEN [raised |-> TRUE, meta |-> self]
             ELSE Finalise_zero(self, i + 1)

\* Meta._finalise from the i-th required key on (53-61).
RECURSIVE Finalise(_, _)
Finalise(self, i) ==
    IF i > Len(RequiredKeys) THEN [raised |-> FALSE, meta |-> self]
    ELSE LET key == RequiredKeys[i]
             val == Get(self, key)
         IN  IF val = NoneValue
             THEN Finalise([self EXCEPT ![key] = val], i + 1)
             ELSE IF ~IsInstance(val, RequiredType(key))
             THEN [raised |-> TRUE, meta |-> self]
             ELSE Finalise(self, i + 1)

\* Meta(attrs): dict.__init__ copies the mapping, then _finalise.
CallMeta ==
    /\ fn = ""
    /\ fn' = "Meta"
    /\ res' = Finalise(arg, 1)
    /\ UNCHANGED arg
    /\ UNCHANGED notCall

NextMeta == CallMeta

InitMeta ==
    /\ WorkerIdle /\ InitPipelineWith({1}) /\ DatesIdle
    /\ fn = ""
    /\ arg \in AttrMappings
    /\ res = <<>>

SpecMeta == InitMeta /\ [][NextMeta]_vars

\* A required key holds a value that is neither None nor of its type.
WrongType(attrs, key) ==
    /\ attrs[key].type \notin {"absent", "NoneType"}
    /\ IF key = "fname" THEN attrs[key].type # "str"
       ELSE attrs[key].type \notin {"int", "bool"}

\* C22: Meta built from an attribute mapping: every required field that is
\* absent is set to None (never to zero), every required field present
\* with the right type and every other key is kept unchanged, and a
\* required field present with a wrong type raises, so that no entry is
\* created.
C22_MetaFinalised ==
    fn = "Meta" =>
        LET required == {"fname", "proc_dm_trials", "num_candidates",
                         "num_fold_prfs", "num_arv_prfs"}
        IN  /\ res.raised <=> \E key \in required : WrongType(arg, key)
            /\ ~res.raised =>
                  \A key \in DOMAIN arg :
                     IF key \in required /\ arg[key].type = "absent"
                     THEN res.meta[key].type = "NoneType"
                     ELSE res.meta[key] = arg[key]

\* C22 witness: an entry was created from a mapping without num_arv_prfs,
\* with a name, a count and a key that is not required.
C22_Witness ==
    /\ fn = "Meta" /\ ~res.raised
    /\ arg["num_arv_prfs"] = Absent
    /\ res.meta["num_arv_prfs"] = NoneValue
    /\ arg["fname"].type = "str"
    /\ arg["num_candidates"] = [type |-> "int", val |-> 3]
    /\ arg["tobs"].type = "float"
    /\ res.meta["tobs"] = arg["tobs"]

(***************************************************************************)
(* build_candidates followed by save_candidates, on the clusters of the    *)
(* detections in arg.                                                      *)
(***************************************************************************)

CallSaveCandidates ==
    /\ fn = ""
    /\ fn' = "save_candidates"
    /\ LET cls == TaggedClusters(arg)
       IN  \E failing \in SUBSET (1..Len(cls)) :
              LET built == BuildLoop(cls, failing, 1)
                  cands == SortedReverse(built,
                              [i \in 1..Len(built) |-> built[i].best_snr])
              IN  res' = [candidates |-> cands,
                          outdir |-> IF cands = <<>> THEN {}
                                     ELSE SavedArtifacts(cands)]
    /\ UNCHANGED arg
    /\ UNCHANGED notCall

\* The number a sequence of decimal digits writes.
RECURSIVE DigitsValue(_)
DigitsValue(d) ==
    IF d = <<>> THEN 0
    ELSE 10 * DigitsValue(SubSeq(d, 1, Len(d) - 1)) + d[Len(d)]

\* Indices around the width of the padding.
IndexSamples == {1, 9, 10, 999, 1000, 9999, 10000, 10001}

\* C23: after build_candidates the candidate list is sorted by descending
\* best snr, and save_candidates numbers the files in that order from 1
\* with a zero-padded index: the file of index k holds the k-th brightest
\* candidate and no two candidates share a file name.
C23_ArtifactsNumberedBySnr ==
    /\ \A n \in IndexSamples :
          /\ Len(Format04d(n)) >= 4
          /\ DigitsValue(Format04d(n)) = n
          /\ \A m \in IndexSamples : Format04d(n) = Format04d(m) => n = m
    /\ fn = "save_candidates" =>
          /\ \A i, j \in 1..Len(res.candidates) :
                i < j => res.candidates[i].best_snr
                            >= res.candidates[j].best_snr
          /\ \A k \in 1..Len(res.candidates) :
                \E a \in res.outdir :
                   /\ a[1] = "riptide_cand"
                   /\ Len(a[2]) = 4 /\ DigitsValue(a[2]) = k
                   /\ a[3] = res.candidates[k]
          /\ \A a, b \in res.outdir : a[2] = b[2] => a = b
          /\ Cardinality(res.outdir) = Len(res.candidates)

\* C23 witness: three candidates of which the last built is the
\* brightest were saved.
C23_Witness ==
    /\ fn = "save_candidates"
    /\ Len(res.candidates) = 3
    /\ res.candidates[1].best_snr > res.candidates[3].best_snr
    /\ res.candidates[1].best_period
          = top_detection(TaggedClusters(arg)[3].members).period

\* The positions of the classifier results that flag no harmonic.
Unflagged(cparams) ==
    SelectSeq([i \in 1..Len(cparams) |-> i],
              LAMBDA i : ~cparams[i].is_harmonic)

\* C24: in remove_harmonics the clusters are sorted by descending
\* top-detection snr before the classifier is called and are not reordered
\* afterwards: the i-th result of the classifier is that of the i-th
\* brightest cluster and is applied to it, a fundamental_index points into
\* the same sorted list, and the fundamentals retained keep the
\* descending order.
C24_SortedBeforeClassified ==
    (fn = "remove_harmonics" /\ res.enabled /\ arg # <<>>) =>
        LET n == Len(res.sorted)
            keep == Unflagged(res.cparams)
        IN  /\ n = Len(TaggedClusters(arg))
            /\ \A c \in 1..n : Retained(TaggedClusters(arg)[c], res.sorted)
            /\ \A i, j \in 1..n :
                  i < j => MaxSnr(res.sorted[i]) >= MaxSnr(res.sorted[j])
            /\ res.cparams =
                  flag_harmonics([i \in 1..n |->
                     [period |-> top_detection(res.sorted[i].members).period,
                      dm |-> top_detection(res.sorted[i].members).dm,
                      snr |-> MaxSnr(res.sorted[i]),
                      num_detections |-> Len(res.sorted[i].members)]])
            /\ res.clusters = [k \in 1..Len(keep) |-> res.sorted[keep[k]]]
            /\ \A i \in 1..n :
                  res.cparams[i].is_harmonic =>
                     /\ res.cparams[i].fundamental_index \in 1..(i - 1)
                     /\ MaxSnr(res.sorted[res.cparams[i].fundamental_index])
                           >= MaxSnr(res.sorted[i])
            /\ \A i, j \in 1..Len(res.clusters) :
                  i < j => MaxSnr(res.clusters[i]) >= MaxSnr(res.clusters[j])

\* C24 witness: the sort changed the order of three clusters, the second
\* brightest was flagged and the third was retained behind the first.
C24_Witness ==
    /\ fn = "remove_harmonics" /\ res.enabled
    /\ Len(res.sorted) = 3
    /\ res.sorted # TaggedClusters(arg)
    /\ res.cparams[2].is_harmonic
    /\ ~res.cparams[3].is_harmonic
    /\ res.clusters = <<res.sorted[1], res.sorted[3]>>

\* C25: a disabled candidate filter is a no-op: when dm_min, snr_min or
\* max_number is falsy (None or 0) its step of apply_candidate_filters
\* removes no cluster, and with all three disabled the result is the input
\* cluster list sorted by descending top-detection snr, with the same
\* clusters.
C25_DisabledFilterNoOp ==
    fn = "apply_candidate_filters" =>
        LET off(x) == x = 0 \/ x = None
            cls == TaggedClusters(arg)
        IN  /\ off(res.params.dm_min) => res.byDm = res.sorted
            /\ off(res.params.snr_min) => res.bySnr = res.byDm
            /\ off(res.params.max_number) => res.clusters = res.bySnr
            /\ (off(res.params.dm_min) /\ off(res.params.snr_min)
                  /\ off(res.params.max_number)) =>
                  /\ Len(res.clusters) = Len(cls)
                  /\ \A c \in 1..Len(cls) : Retained(cls[c], res.clusters)
                  /\ \A i, j \in 1..Len(res.clusters) :
                        i < j => MaxSnr(res.clusters[i])
                                    >= MaxSnr(res.clusters[j])

\* C25 witness: max_number is 0 and the thresholds are unset and 0; three
\* clusters came back, in another order than they went in.
C25_Witness ==
    /\ fn = "apply_candidate_filters"
    /\ res.params.max_number = 0
    /\ res.params.dm_min = None /\ res.params.snr_min = 0
    /\ Len(res.clusters) = 3
    /\ res.clusters # TaggedClusters(arg)

NextCluster ==
    \/ CallClusterDetections
    \/ CallRemoveHarmonics
    \/ CallApplyCandidateFilters
    \/ CallBuildCandidates
    \/ CallSaveCandidates

SpecCluster == InitCluster /\ [][NextCluster]_vars

(***************************************************************************)
(* Properties of the completion ledger (PipelineWorker), continued.        *)
(***************************************************************************)

\* Filterbank.process raised for the file cur and ended the call.
RaisedForFile == pc = "failed" /\ cur # 0

\* C26: when the processing of a file F raises in a call of PipelineWorker
\* the call stops there: no file after F in FILES is processed in that
\* call, and at the end of the call the ledger holds, beyond the entries it
\* held at the start, exactly the entries of the files before F, in order.
C26_RunStopsAtFailure ==
    /\ [](RaisedForFile =>
            LET e == FnameSeq(Entries(ledger))
                k == idx - 1
            IN  /\ idx <= Len(FILES) /\ cur = FILES[idx]
                /\ memBuf = <<>>
                /\ Len(e) >= k
                /\ SubSeq(e, Len(e) - k + 1, Len(e)) = SubSeq(FILES, 1, k)
                /\ {e[i] : i \in 1..(Len(e) - k)} = skipped
                /\ Len(e) - k = Cardinality(skipped))
    /\ [][failedFiles' # failedFiles =>
            /\ pc' = "failed"
            /\ cur' = cur /\ cur \in failedFiles'
            /\ ledger' = ledger /\ memBuf' = memBuf]_vars
    /\ [][(RaisedForFile /\ runs' = runs) =>
            /\ pc' = "failed"
            /\ ledger' = ledger /\ finished' = finished
            /\ idx' = idx]_vars
    /\ [][(runs' = runs /\ pc \notin {"unpickle"}) =>
            Extends(ledger', ledger)]_vars

\* C26 witness: in a call that resumed from the ledger, the second file
\* raised after the first file of that call got its entry.
C26_Witness ==
    /\ RaisedForFile
    /\ runs >= 2 /\ ~fresh
    /\ idx = 2
    /\ FnameSeq(Entries(ledger)) = <<FILES[1]>>
    /\ cur \in failedFiles

(***************************************************************************)
(* Filterbank.para_dedisp (filterbank_no_rfifind.py 619-654): the DM       *)
(* segments of a dedispersion plan.                                        *)
(***************************************************************************)

MaxDMHighest == 8

MaxCores == 4

\* ddplan["DM_lowest"], ["DM_highest"], ["dDM"] and config.cores.
DedispArgs ==
    {a \in [DM_lowest : 0..1, DM_highest : 1..MaxDMHighest, dDM : 1..2,
            cores : 1..MaxCores] : a.DM_lowest < a.DM_highest}

\* np.arange(start, stop, step) for whole numbers.
arange(start, stop, step) ==
    {start + i * step : i \in 0..((stop - start - 1) \div step)}

\* self.dm_segments.  segment_length is (DM_highest - DM_lowest) / cores;
\* every DM is multiplied by cores here, which keeps the comparisons of
\* step_iter exact, and divided again in the result.
dm_segments(a) ==
    LET scaled == {v * a.cores :
                     v \in arange(a.DM_lowest, a.DM_highest, a.dDM)}
        kept   == step_iter(scaled, a.DM_lowest * a.cores,
                            a.DM_highest * a.cores,
                            a.DM_highest - a.DM_lowest)
    IN  [i \in 1..Len(kept) |-> kept[i] \div a.cores]

CallParaDedisp ==
    /\ fn = ""
    /\ fn' = "para_dedisp"
    /\ res' = [dm_segments |-> dm_segments(arg)]
    /\ UNCHANGED arg
    /\ UNCHANGED notCall

NextDedisp == CallParaDedisp

InitDedisp ==
    /\ WorkerIdle /\ InitPipelineWith({1}) /\ DatesIdle
    /\ fn = ""
    /\ arg \in DedispArgs
    /\ res = <<>>

SpecDedisp == InitDedisp /\ [][NextDedisp]_vars

\* C27: in para_dedisp the number of DM segments dedispersed in parallel
\* equals the number of cores per node, for every dedispersion plan
\* (DM_lowest, DM_highest, dDM) and every core count.
C27_SegmentsEqualCores ==
    fn = "para_dedisp" => Len(res.dm_segments) = arg.cores

(***************************************************************************)
(* Files without candidates, dates without data, and the two records of    *)
(* what has been processed.                                                *)
(***************************************************************************)

\* C28: a file whose search yields zero candidates is processed to the end.
\* When plot_candidates is done with such a file, process goes on to the
\* folding stage and the file is not among those process raised for (so
\* that it gets its ledger entry with num_candidates = 0).
C28_ZeroCandidatesCompleted ==
    [][(pc = "plot" /\ ncand = 0 /\ pc' # pc /\ error' # "Exception") =>
           /\ pc' = "fold"
           /\ error' = error
           /\ failedFiles' = failedFiles]_vars

\* C29: when raw_or_fil returns None, the call processes no file, leaves
\* the ledger as it is (absent stays absent) and returns without raising.
C29_NoDataReturns ==
    [][(pc = "end" /\ EXT = "none" /\ pc' # pc) =>
           /\ pc' = "done"
           /\ error' = ""
           /\ ledger' = ledger
           /\ ledgerState' = ledgerState
           /\ finished' = finished]_vars

\* C30: whenever no call is running, after any runs and crashes, the names
\* of the filelist are a prefix of the names of the per-file entries of
\* the ledger, and the ledger has at most one entry more.
C30_FilelistPrefixOfLedger ==
    Resting =>
        /\ Extends(FnameSeq(Entries(ledger)), filelist)
        /\ Len(Entries(ledger)) - Len(filelist) <= 1

====
